---- MODULE Spec2Model ----
(***************************************************************************)
(* helpv: an interactive terminal help viewer.                             *)
(*                                                                         *)
(* The module models the navigation state machine of src/src/app.rs (the   *)
(* App struct, its event loop and its key handlers) together with the      *)
(* History stack, the Pager, the Finder and the CommandSwitcher overlays,  *)
(* the subcommand parser and the discovery channel.                        *)
(*                                                                         *)
(* Text is modelled at character level: a string is a sequence of          *)
(* one-character strings, a help text is the sequence of its lines.        *)
(* Option<T> is modelled as a sequence of length 0 (None) or 1 (Some).     *)
(***************************************************************************)
EXTENDS Integers, Sequences, FiniteSets, TLC

(***************************************************************************)
(* Option<T>                                                               *)
(***************************************************************************)
None == <<>>

Some(x) == <<x>>

IsSome(o) == Len(o) = 1

Unwrap(o) == o[1]

(***************************************************************************)
(* Characters and strings                                                  *)
(***************************************************************************)
UpperCase == <<"A","B","C","D","E","F","G","H","I","J","K","L","M",
               "N","O","P","Q","R","S","T","U","V","W","X","Y","Z">>

LowerCase == <<"a","b","c","d","e","f","g","h","i","j","k","l","m",
               "n","o","p","q","r","s","t","u","v","w","x","y","z">>

Digits == {"0","1","2","3","4","5","6","7","8","9"}

Range(s) == {s[i] : i \in 1..Len(s)}

IsUpper(c) == c \in Range(UpperCase)

IsLower(c) == c \in Range(LowerCase)

\* char::to_lowercase
LowerChar(c) ==
    IF IsUpper(c) THEN LowerCase[CHOOSE i \in 1..26 : UpperCase[i] = c] ELSE c

\* str::to_lowercase
to_lowercase(s) == [i \in 1..Len(s) |-> LowerChar(s[i])]

\* regex class \s (a line holds no line terminator)
SpaceChars == {" ", "\t"}

\* regex class \w
WordChars == Range(UpperCase) \cup Range(LowerCase) \cup Digits \cup {"_"}

\* regex class [\w-]
NameChars == WordChars \cup {"-"}

\* regex class [\w.-]
PageChars == WordChars \cup {"-", "."}

IsWord(c) == c \in WordChars

\* number of leading characters of s, counted from position from, that are
\* in the class cls (the greedy match of cls* at that position)
RunLen(s, from, cls) ==
    CHOOSE n \in 0..(Len(s) + 1 - from) :
        /\ \A i \in from..(from + n - 1) : s[i] \in cls
        /\ (from + n > Len(s) \/ s[from + n] \notin cls)

\* number of leading characters of s, counted from position from, that are
\* no white space
NonSpaceRunLen(s, from) ==
    CHOOSE n \in 0..(Len(s) + 1 - from) :
        /\ \A i \in from..(from + n - 1) : s[i] \notin SpaceChars
        /\ (from + n > Len(s) \/ s[from + n] \in SpaceChars)

\* number of trailing characters of s that are in the class cls
TailRunLen(s, cls) ==
    CHOOSE n \in 0..Len(s) :
        /\ \A i \in (Len(s) - n + 1)..Len(s) : s[i] \in cls
        /\ (n = Len(s) \/ s[Len(s) - n] \notin cls)

\* str::trim_end
TrimEnd(s) == SubSeq(s, 1, Len(s) - TailRunLen(s, SpaceChars))

\* str::trim
Trim(s) ==
    LET t == TrimEnd(s)
    IN  SubSeq(t, RunLen(t, 1, SpaceChars) + 1, Len(t))

\* str::starts_with
starts_with(s, p) == Len(p) <= Len(s) /\ SubSeq(s, 1, Len(p)) = p

\* str::ends_with
ends_with(s, p) == Len(p) <= Len(s) /\ SubSeq(s, Len(s) - Len(p) + 1, Len(s)) = p

\* str::contains
contains(s, p) ==
    \E i \in 1..(Len(s) - Len(p) + 1) : SubSeq(s, i, i + Len(p) - 1) = p

\* the rest of s from position from on
From(s, from) == SubSeq(s, from, Len(s))

(***************************************************************************)
(* parser.rs: Subcommand and the three parsing layers                      *)
(***************************************************************************)
Subcommand(name, description, label, invoke_command) ==
    [name |-> name, description |-> description,
     label |-> label, invoke_command |-> invoke_command]

HasName(subs, name) == \E i \in 1..Len(subs) : subs[i].name = name

\* the literal words the default section patterns are built from
W_command == <<"c","o","m","m","a","n","d">>
W_commands == <<"c","o","m","m","a","n","d","s">>
W_subcommand == <<"s","u","b","c","o","m","m","a","n","d">>
W_subcommands == <<"s","u","b","c","o","m","m","a","n","d","s">>
W_available == <<"a","v","a","i","l","a","b","l","e">>
W_usage == <<"u","s","a","g","e">>
W_options == <<"o","p","t","i","o","n","s">>
W_see_also == <<"s","e","e"," ","a","l","s","o">>
W_see_also_paren == <<"(","s","e","e"," ","a","l","s","o",":">>

\* s without one trailing ':' (the regex fragment ":?")
StripColon(s) == IF ends_with(s, <<":">>) THEN SubSeq(s, 1, Len(s) - 1) ELSE s

\* Config::default_subcommand_patterns, section regexes, matched against one
\* line.  All three carry the (?i) flag, so the line is lowercased first.
\*   1: ^(commands?|subcommands?|available\s+commands?):?\s*$
\*   2: ^(usage|options):?\s*$
\*   3: ^\w+\s+COMMANDS?\s*$
\* and of a pattern pair of the user's config.toml, whose entry regex takes
\* any word for a name:
\*   4: the section regex 1
section_is_match(p, line) ==
    LET t == TrimEnd(to_lowercase(line))
        u == StripColon(t)
        w == RunLen(t, 1, WordChars)
        g == RunLen(t, w + 1, SpaceChars)
        ua == RunLen(u, Len(W_available) + 1, SpaceChars)
    IN  CASE p = 1 ->
               \/ u \in {W_command, W_commands, W_subcommand, W_subcommands}
               \/ /\ starts_with(u, W_available)
                  /\ ua >= 1
                  /\ From(u, Len(W_available) + ua + 1) \in {W_command, W_commands}
          [] p = 2 -> u \in {W_usage, W_options}
          [] p = 3 -> /\ w >= 1
                      /\ g >= 1
                      /\ From(t, w + g + 1) \in {W_command, W_commands}
          [] p = 4 ->
               \/ u \in {W_command, W_commands, W_subcommand, W_subcommands}
               \/ /\ starts_with(u, W_available)
                  /\ ua >= 1
                  /\ From(u, Len(W_available) + ua + 1) \in {W_command, W_commands}

\* Config::default_subcommand_patterns, entry regexes: the captures of one
\* line as Some([name, description]) or None.
\*   1: ^\s{2,4}([\w][\w-]*)\s+(.*)$
\*   2: ^\s{2,4}([\w][\w-]*)\s{2,}(.*)$
\*   3: ^\s{2}([\w][\w-]*):\s+(.*)$
\* and of the user's pattern pair:
\*   4: ^\s+(\S+)\s+(.*)$
entry_captures(p, line) ==
    LET ind == RunLen(line, 1, SpaceChars)
        nlen == IF p = 4 THEN NonSpaceRunLen(line, ind + 1)
                ELSE RunLen(line, ind + 1, NameChars)
        name == SubSeq(line, ind + 1, ind + nlen)
        colon == ind + nlen < Len(line) /\ line[ind + nlen + 1] = ":"
        after == IF p = 3 THEN ind + nlen + 2 ELSE ind + nlen + 1
        gap == RunLen(line, after, SpaceChars)
        desc == Trim(From(line, after + gap))
        indent_ok == CASE p = 3 -> ind = 2
                       [] p = 4 -> ind >= 1
                       [] OTHER -> ind >= 2 /\ ind <= 4
        gap_ok == IF p = 2 THEN gap >= 2 ELSE gap >= 1
    IN  IF /\ indent_ok
           /\ ind < Len(line)
           /\ (p # 4 => IsWord(line[ind + 1]))
           /\ (p = 3 => colon)
           /\ gap_ok
        THEN Some([name |-> name, description |-> desc])
        ELSE None

\* Config.subcommand_patterns after apply_defaults
subcommand_patterns == <<1, 2, 3>>

\* the state of a loop over the lines: the flags of the loop, the list
\* built so far, and hit, the name and description captured from the line
\* just handled when the loop got as far as the check for a duplicate
ScanState(in_section, blank_line_count, subs, hit) ==
    [in_section |-> in_section, blank_line_count |-> blank_line_count,
     subs |-> subs, hit |-> hit]

\* Subcommand { name, description, label: None, invoke_command: None }
Parsed(caps) == Subcommand(caps.name, Some(caps.description), None, None)

\* the inner loop body without the skip of names that look like flags
ConfiguredLine_keep_flags(p, line, st) ==
    LET caps == entry_captures(p, line)
    IN  IF section_is_match(p, line)
        THEN ScanState(TRUE, 0, st.subs, None)
        ELSE IF ~st.in_section
        THEN ScanState(FALSE, st.blank_line_count, st.subs, None)
        ELSE IF Trim(line) = <<>>
        THEN ScanState(st.blank_line_count + 1 < 2, st.blank_line_count + 1,
                       st.subs, None)
        ELSE IF /\ ~starts_with(line, <<" ">>)
                /\ ~starts_with(line, <<"\t">>)
                /\ ends_with(line, <<":">>)
        THEN ScanState(FALSE, st.blank_line_count, st.subs, None)
        ELSE IF IsSome(caps)
        THEN ScanState(TRUE, 0,
                       IF HasName(st.subs, Unwrap(caps).name) THEN st.subs
                       ELSE Append(st.subs, Parsed(Unwrap(caps))),
                       caps)
        ELSE ScanState(TRUE, 0, st.subs, None)

\* the inner loop body without the test for a name already in the list
ConfiguredLine_keep_duplicates(p, line, st) ==
    LET caps == entry_captures(p, line)
    IN  IF section_is_match(p, line)
        THEN ScanState(TRUE, 0, st.subs, None)
        ELSE IF ~st.in_section
        THEN ScanState(FALSE, st.blank_line_count, st.subs, None)
        ELSE IF Trim(line) = <<>>
        THEN ScanState(st.blank_line_count + 1 < 2, st.blank_line_count + 1,
                       st.subs, None)
        ELSE IF /\ ~starts_with(line, <<" ">>)
                /\ ~starts_with(line, <<"\t">>)
                /\ ends_with(line, <<":">>)
        THEN ScanState(FALSE, st.blank_line_count, st.subs, None)
        ELSE IF IsSome(caps) /\ ~starts_with(Unwrap(caps).name, <<"-">>)
        THEN ScanState(TRUE, 0, Append(st.subs, Parsed(Unwrap(caps))), caps)
        ELSE ScanState(TRUE, 0, st.subs, None)

\* the body of the inner loop of parse_subcommands for pattern p and one line
ConfiguredLine(p, line, st) ==
    LET caps == entry_captures(p, line)
    IN  IF section_is_match(p, line)
        THEN ScanState(TRUE, 0, st.subs, None)
        ELSE IF ~st.in_section
        THEN ScanState(FALSE, st.blank_line_count, st.subs, None)
        ELSE IF Trim(line) = <<>>
        THEN ScanState(st.blank_line_count + 1 < 2, st.blank_line_count + 1,
                       st.subs, None)
        ELSE IF /\ ~starts_with(line, <<" ">>)
                /\ ~starts_with(line, <<"\t">>)
                /\ ends_with(line, <<":">>)
        THEN ScanState(FALSE, st.blank_line_count, st.subs, None)
        ELSE IF IsSome(caps) /\ ~starts_with(Unwrap(caps).name, <<"-">>)
        THEN ScanState(TRUE, 0,
                       IF HasName(st.subs, Unwrap(caps).name) THEN st.subs
                       ELSE Append(st.subs, Parsed(Unwrap(caps))),
                       caps)
        ELSE ScanState(TRUE, 0, st.subs, None)

\* the inner loop of parse_subcommands for one pattern, from line i on
RECURSIVE ScanPattern(_, _, _, _)
ScanPattern(p, lines, i, st) ==
    IF i > Len(lines) THEN st.subs
    ELSE ScanPattern(p, lines, i + 1, ConfiguredLine(p, lines[i], st))

\* the outer loop of parse_subcommands over the configured patterns
RECURSIVE ScanPatterns(_, _, _)
ScanPatterns(pats, lines, subs) ==
    IF pats = <<>> THEN subs
    ELSE ScanPatterns(Tail(pats), lines,
                      ScanPattern(Head(pats), lines, 1, ScanState(FALSE, 0, subs, None)))

\* parse_git_style entry regex: ^   ([a-z][\w-]*)\s{2,}(.+)$
git_entry_captures(line) ==
    LET nlen == RunLen(line, 4, NameChars)
        name == SubSeq(line, 4, 3 + nlen)
        gap == RunLen(line, 4 + nlen, SpaceChars)
        rest == From(line, 4 + nlen + gap)
    IN  IF /\ starts_with(line, <<" ", " ", " ">>)
           /\ Len(line) >= 4
           /\ IsLower(line[4])
           /\ gap >= 2
           /\ (rest # <<>> \/ gap >= 3)
        THEN Some([name |-> name, description |-> Trim(rest)])
        ELSE None

\* the state of the loop of parse_git_style
GitState(past_usage, in_command_section, subs, hit) ==
    [past_usage |-> past_usage, in_command_section |-> in_command_section,
     subs |-> subs, hit |-> hit]

\* the body of the loop of parse_git_style for one line
GitLine(line, st) ==
    LET trimmed == Trim(line)
        caps == git_entry_captures(line)
        non_indented == /\ ~starts_with(line, <<" ">>)
                        /\ ~starts_with(line, <<"\t">>)
                        /\ trimmed # <<>>
    IN  IF starts_with(line, <<"u","s","a","g","e",":">>) \/ starts_with(line, <<"U","s","a","g","e",":">>)
        THEN GitState(FALSE, st.in_command_section, st.subs, None)
        ELSE IF ~st.past_usage /\ trimmed = <<>>
        THEN GitState(TRUE, st.in_command_section, st.subs, None)
        ELSE IF ~st.past_usage
        THEN GitState(FALSE, st.in_command_section, st.subs, None)
        ELSE IF /\ non_indented
                /\ (IsLower(trimmed[1]) \/ contains(trimmed, W_see_also_paren))
        THEN GitState(TRUE, TRUE, st.subs, None)
        ELSE IF /\ non_indented
                /\ (trimmed[1] = "'" \/ trimmed[1] = "\"")
        THEN GitState(TRUE, FALSE, st.subs, None)
        ELSE IF st.in_command_section /\ IsSome(caps)
        THEN GitState(TRUE, st.in_command_section,
                      IF HasName(st.subs, Unwrap(caps).name) THEN st.subs
                      ELSE Append(st.subs, Parsed(Unwrap(caps))),
                      caps)
        ELSE GitState(TRUE, st.in_command_section, st.subs, None)

RECURSIVE ScanGit(_, _, _)
ScanGit(lines, i, st) ==
    IF i > Len(lines) THEN st.subs
    ELSE ScanGit(lines, i + 1, GitLine(lines[i], st))

parse_git_style(help_text) == ScanGit(help_text, 1, GitState(FALSE, FALSE, <<>>, None))

\* parse_aggressive entry regex: ^\s{2,6}([a-z][\w-]*):?\s{2,}(.*)$
aggressive_entry_captures(line) ==
    LET ind == RunLen(line, 1, SpaceChars)
        nlen == RunLen(line, ind + 1, NameChars)
        name == SubSeq(line, ind + 1, ind + nlen)
        colon == ind + nlen < Len(line) /\ line[ind + nlen + 1] = ":"
        after == IF colon THEN ind + nlen + 2 ELSE ind + nlen + 1
        gap == RunLen(line, after, SpaceChars)
    IN  IF /\ ind >= 2
           /\ ind <= 6
           /\ ind < Len(line)
           /\ IsLower(line[ind + 1])
           /\ gap >= 2
        THEN Some([name |-> name, description |-> Trim(From(line, after + gap))])
        ELSE None

\* the state of the loop of parse_aggressive
AggressiveState(in_likely_section, subs, hit) ==
    [in_likely_section |-> in_likely_section, subs |-> subs, hit |-> hit]

\* the body of the loop of parse_aggressive for one line
AggressiveLine(line, st) ==
    LET lower == to_lowercase(line)
        trimmed == Trim(line)
        caps == aggressive_entry_captures(line)
    IN  IF \/ contains(lower, W_command)
           \/ contains(lower, W_subcommand)
           \/ contains(lower, W_available)
        THEN AggressiveState(TRUE, st.subs, None)
        ELSE IF ~st.in_likely_section
        THEN AggressiveState(FALSE, st.subs, None)
        ELSE IF trimmed = <<>>
        THEN AggressiveState(TRUE, st.subs, None)
        ELSE IF ~starts_with(line, <<" ">>) /\ ~starts_with(line, <<"\t">>)
        THEN AggressiveState(~(/\ ~IsLower(trimmed[1])
                               /\ ~contains(lower, W_command)
                               /\ ~contains(lower, W_see_also)),
                             st.subs, None)
        ELSE IF IsSome(caps) /\ ~starts_with(Unwrap(caps).name, <<"-">>)
        THEN AggressiveState(TRUE,
                             IF HasName(st.subs, Unwrap(caps).name) THEN st.subs
                             ELSE Append(st.subs, Parsed(Unwrap(caps))),
                             caps)
        ELSE AggressiveState(TRUE, st.subs, None)

RECURSIVE ScanAggressive(_, _, _)
ScanAggressive(lines, i, st) ==
    IF i > Len(lines) THEN st.subs
    ELSE ScanAggressive(lines, i + 1, AggressiveLine(lines[i], st))

parse_aggressive(help_text) ==
    ScanAggressive(help_text, 1, AggressiveState(FALSE, <<>>, None))

\* parse_subcommands(help_text, config) for the patterns of the config;
\* help_text is the sequence of lines
parse_subcommands_config(help_text, patterns) ==
    LET configured == ScanPatterns(patterns, help_text, <<>>)
        git == parse_git_style(help_text)
    IN  IF configured # <<>> THEN configured
        ELSE IF git # <<>> THEN git
        ELSE parse_aggressive(help_text)

\* parse_subcommands with the default configuration
parse_subcommands(help_text) == parse_subcommands_config(help_text, subcommand_patterns)

(***************************************************************************)
(* app.rs: free functions                                                  *)
(***************************************************************************)
L_ManPages == <<"M","a","n"," ","P","a","g","e","s">>

\* format!("man {}", name)
ManInvoke(name) == <<"m","a","n"," ">> \o name

\* a merge without the name check
merge_discovered_items_all(subcommands, discovered) == subcommands \o discovered

\* merge_discovered_items(subcommands, discovered)
RECURSIVE merge_discovered_items(_, _)
merge_discovered_items(subcommands, discovered) ==
    IF discovered = <<>> THEN subcommands
    ELSE merge_discovered_items(
             IF HasName(subcommands, Head(discovered).name)
             THEN subcommands
             ELSE Append(subcommands, Head(discovered)),
             Tail(discovered))

\* the first loop of parse_see_also: the text accumulated after the header
RECURSIVE SeeAlsoText(_, _, _, _)
SeeAlsoText(lines, i, in_see_also, text) ==
    IF i > Len(lines) THEN text
    ELSE LET line == lines[i]
             trimmed == Trim(line)
         IN  IF trimmed \in {<<"S","E","E"," ","A","L","S","O">>, <<"S","e","e"," ","A","l","s","o">>, <<"S","E","E"," "," ","A","L","S","O">>}
             THEN SeeAlsoText(lines, i + 1, TRUE, text)
             ELSE IF ~in_see_also
             THEN SeeAlsoText(lines, i + 1, FALSE, text)
             ELSE IF /\ trimmed # <<>>
                     /\ ~starts_with(trimmed, <<" ">>)
                     /\ IsUpper(trimmed[1])
                     /\ ~contains(trimmed, <<"(">>)
             THEN text
             ELSE SeeAlsoText(lines, i + 1, TRUE, text \o line \o <<" ">>)

\* captures_iter of ([\w][\w.-]*)\(\d+\) over text from position i on: the
\* names (group 1) of the successive non-overlapping leftmost matches
RECURSIVE PageRefs(_, _)
PageRefs(text, i) ==
    IF i > Len(text) THEN <<>>
    ELSE LET nlen == RunLen(text, i, PageChars)
             open == i + nlen
             dlen == RunLen(text, open + 1, Digits)
             close == open + 1 + dlen
         IN  IF /\ IsWord(text[i])
                /\ open <= Len(text)
                /\ text[open] = "("
                /\ dlen >= 1
                /\ close <= Len(text)
                /\ text[close] = ")"
             THEN <<SubSeq(text, i, open - 1)>> \o PageRefs(text, close + 1)
             ELSE PageRefs(text, i + 1)

\* the filter_map closure of parse_see_also over the captured names
RECURSIVE SeeAlsoItems(_, _)
SeeAlsoItems(names, base_cmd) ==
    IF names = <<>> THEN <<>>
    ELSE LET name == Head(names)
             prefix == base_cmd \o <<"-">>
         IN  IF (~starts_with(name, prefix) /\ name # base_cmd) \/ name = base_cmd
             THEN SeeAlsoItems(Tail(names), base_cmd)
             ELSE <<Subcommand(name, None, Some(L_ManPages), Some(ManInvoke(name)))>>
                      \o SeeAlsoItems(Tail(names), base_cmd)

\* parse_see_also(content, base_cmd)
parse_see_also(content, base_cmd) ==
    LET see_also_text == SeeAlsoText(content, 1, FALSE, <<>>)
    IN  IF see_also_text = <<>> THEN <<>>
        ELSE SeeAlsoItems(PageRefs(see_also_text, 1), base_cmd)

\* run_discovery: the toolpack items, then the manual pages merged into them
run_discovery(toolpack_items, man_pages) ==
    merge_discovered_items(toolpack_items, man_pages)

(***************************************************************************)
(* history.rs                                                              *)
(***************************************************************************)
HistoryEntry(command, scroll_position, source) ==
    [command |-> command, scroll_position |-> scroll_position, source |-> source]

\* History::push that saves no scroll position
History_push_top(entries, command, scroll_position, source) ==
    Append(entries, HistoryEntry(command, 0, source))

\* History::push
History_push(entries, command, scroll_position, source) ==
    Append(entries, HistoryEntry(command, scroll_position, source))

\* History::pop that removes nothing
History_pop_keep(entries) == entries

\* History::pop: the entries that remain (the popped entry is the last one)
History_pop(entries) ==
    IF entries = <<>> THEN entries ELSE SubSeq(entries, 1, Len(entries) - 1)

(***************************************************************************)
(* pager.rs                                                                *)
(***************************************************************************)
\* Pager::new; search_regex is Some exactly when search_query is, since
\* Regex::new(regex::escape(q)) cannot fail, so it is not kept separately
Pager_new(content) ==
    [content |-> content, scroll |-> 0, search_query |-> None,
     search_matches |-> <<>>, current_match |-> 0]

\* usize::saturating_sub
saturating_sub(a, b) == IF a >= b THEN a - b ELSE 0

Min(a, b) == IF a <= b THEN a ELSE b

Max(a, b) == IF a >= b THEN a ELSE b

\* Pager::scroll_down; the offset stays far below usize::MAX because the
\* event loop clamps it in draw before every key
Pager_scroll_down(pg, amount) == [pg EXCEPT !.scroll = pg.scroll + amount]

\* Pager::scroll_up
Pager_scroll_up(pg, amount) == [pg EXCEPT !.scroll = saturating_sub(pg.scroll, amount)]

\* Pager::scroll_to_top
Pager_scroll_to_top(pg) == [pg EXCEPT !.scroll = 0]

\* Pager::scroll_to_bottom
Pager_scroll_to_bottom(pg, viewport_height) ==
    IF Len(pg.content) > viewport_height
    THEN [pg EXCEPT !.scroll = Len(pg.content) - viewport_height]
    ELSE pg

\* Pager::clamp_scroll
Pager_clamp_scroll(pg, viewport_height) ==
    [pg EXCEPT !.scroll = Min(pg.scroll, saturating_sub(Len(pg.content), viewport_height))]

\* the indices (0-based) of the lines that contain the query, ignoring case
RECURSIVE MatchLines(_, _, _)
MatchLines(content, query, i) ==
    IF i > Len(content) THEN <<>>
    ELSE (IF contains(to_lowercase(content[i]), to_lowercase(query))
          THEN <<i - 1>> ELSE <<>>) \o MatchLines(content, query, i + 1)

\* Pager::clear_search
Pager_clear_search(pg) ==
    [pg EXCEPT !.search_query = None, !.search_matches = <<>>, !.current_match = 0]

\* Pager::set_search
Pager_set_search(pg, query) ==
    IF query = <<>> THEN Pager_clear_search(pg)
    ELSE [pg EXCEPT !.search_query = Some(query),
                    !.search_matches = MatchLines(pg.content, query, 1),
                    !.current_match = 0]

\* Pager::next_match
\* next_match that stays on the last match
Pager_next_match_no_wrap(pg) ==
    IF pg.search_matches = <<>> THEN pg
    ELSE LET m == IF pg.current_match + 1 < Len(pg.search_matches)
                  THEN pg.current_match + 1 ELSE pg.current_match
         IN  [pg EXCEPT !.current_match = m, !.scroll = pg.search_matches[m + 1]]

Pager_next_match(pg) ==
    IF pg.search_matches = <<>> THEN pg
    ELSE LET m == (pg.current_match + 1) % Len(pg.search_matches)
         IN  [pg EXCEPT !.current_match = m, !.scroll = pg.search_matches[m + 1]]

\* Pager::prev_match
Pager_prev_match(pg) ==
    IF pg.search_matches = <<>> THEN pg
    ELSE LET m == IF pg.current_match = 0 THEN Len(pg.search_matches) - 1
                  ELSE pg.current_match - 1
         IN  [pg EXCEPT !.current_match = m, !.scroll = pg.search_matches[m + 1]]

(***************************************************************************)
(* The fuzzy matcher (external crate nucleo), by its contract: a needle    *)
(* matches a haystack iff its characters occur in the haystack in order,   *)
(* ignoring the haystack's case; a match carries a score, higher is        *)
(* better.                                                                 *)
(***************************************************************************)
RECURSIVE IsSubsequence(_, _)
IsSubsequence(needle, haystack) ==
    IF needle = <<>> THEN TRUE
    ELSE IF haystack = <<>> THEN FALSE
    ELSE IF Head(needle) = Head(haystack)
    THEN IsSubsequence(Tail(needle), Tail(haystack))
    ELSE IsSubsequence(needle, Tail(haystack))

ScorePerChar == 16

PrefixBonus == 8

\* Matcher::fuzzy_match(haystack, needle): Some(score) or None
fuzzy_match(haystack, needle) ==
    IF IsSubsequence(needle, to_lowercase(haystack))
    THEN Some(ScorePerChar * Len(needle)
              + (IF starts_with(to_lowercase(haystack), needle) THEN PrefixBonus ELSE 0))
    ELSE None

\* Vec::sort_by(|a, b| b.0.cmp(&a.0)): stable, score descending
RECURSIVE InsertByScore(_, _)
InsertByScore(sorted, e) ==
    IF sorted = <<>> THEN <<e>>
    ELSE IF Head(sorted)[1] >= e[1]
    THEN <<Head(sorted)>> \o InsertByScore(Tail(sorted), e)
    ELSE <<e>> \o sorted

RECURSIVE SortByScore(_)
SortByScore(f) ==
    IF f = <<>> THEN <<>>
    ELSE InsertByScore(SortByScore(SubSeq(f, 1, Len(f) - 1)), f[Len(f)])

\* (0, i) for every index, 0-based
AllUnscored(n) == [i \in 1..n |-> <<0, i - 1>>]

(***************************************************************************)
(* switcher.rs                                                             *)
(***************************************************************************)
RECURSIVE SwitcherMatches(_, _, _)
SwitcherMatches(history, query, i) ==
    IF i > Len(history) THEN <<>>
    ELSE LET m == fuzzy_match(history[i], query)
         IN  (IF IsSome(m) THEN << <<Unwrap(m), i - 1>> >> ELSE <<>>)
                 \o SwitcherMatches(history, query, i + 1)

\* CommandSwitcher::update_filtered: the new filtered list
Switcher_update_filtered(sw) ==
    IF sw.query = <<>> THEN AllUnscored(Len(sw.history))
    ELSE SortByScore(SwitcherMatches(sw.history, sw.query, 1))

\* CommandSwitcher::new
CommandSwitcher_new(history) ==
    [history |-> history, query |-> <<>>,
     filtered |-> AllUnscored(Len(history)), selected |-> 0]

\* CommandSwitcher::push_char
Switcher_push_char(sw, c) ==
    LET q == [sw EXCEPT !.query = Append(sw.query, c)]
    IN  [q EXCEPT !.filtered = Switcher_update_filtered(q), !.selected = 0]

\* CommandSwitcher::pop_char
Switcher_pop_char(sw) ==
    LET q == [sw EXCEPT !.query = SubSeq(sw.query, 1, Len(sw.query) - 1)]
    IN  [q EXCEPT !.filtered = Switcher_update_filtered(q), !.selected = 0]

\* CommandSwitcher::move_up
Switcher_move_up(sw) ==
    IF sw.selected > 0 THEN [sw EXCEPT !.selected = sw.selected - 1] ELSE sw

\* CommandSwitcher::move_down
Switcher_move_down(sw) ==
    LET max_idx == IF sw.filtered = <<>> /\ sw.query # <<>> THEN 0
                   ELSE saturating_sub(Len(sw.filtered), 1)
    IN  IF sw.selected < max_idx THEN [sw EXCEPT !.selected = sw.selected + 1] ELSE sw

\* CommandSwitcher::selected_command
selected_command(sw) ==
    IF sw.selected < Len(sw.filtered)
    THEN Some(sw.history[sw.filtered[sw.selected + 1][2] + 1])
    ELSE IF sw.query # <<>> THEN Some(sw.query)
    ELSE None

(***************************************************************************)
(* finder.rs                                                               *)
(***************************************************************************)
\* the searchable text of an item: label, name and description
Searchable(item) ==
    (IF IsSome(item.label) THEN Unwrap(item.label) \o <<" ">> ELSE <<>>)
        \o item.name
        \o (IF IsSome(item.description) THEN <<" ">> \o Unwrap(item.description) ELSE <<>>)

\* str::split_whitespace
RECURSIVE split_whitespace(_)
split_whitespace(s) ==
    LET ws == RunLen(s, 1, SpaceChars)
        wl == NonSpaceRunLen(s, ws + 1)
    IN  IF ws = Len(s) THEN <<>>
        ELSE <<SubSeq(s, ws + 1, ws + wl)>> \o split_whitespace(From(s, ws + wl + 1))

\* the inner loop stopped after the first term
TermsScore_first(haystack, terms, total_score) ==
    IF terms = <<>> THEN Some(total_score)
    ELSE LET m == fuzzy_match(haystack, Head(terms))
         IN  IF IsSome(m) THEN Some(total_score + Unwrap(m)) ELSE None

\* the inner loop over the terms: Some(total score) when every term matches
RECURSIVE TermsScore(_, _, _)
TermsScore(haystack, terms, total_score) ==
    IF terms = <<>> THEN Some(total_score)
    ELSE LET m == fuzzy_match(haystack, Head(terms))
         IN  IF IsSome(m) THEN TermsScore(haystack, Tail(terms), total_score + Unwrap(m))
             ELSE None

U16_MAX == 65535

RECURSIVE FinderMatches(_, _, _)
FinderMatches(items, terms, i) ==
    IF i > Len(items) THEN <<>>
    ELSE LET m == TermsScore(Searchable(items[i]), terms, 0)
         IN  (IF IsSome(m) THEN << <<Min(Unwrap(m), U16_MAX), i - 1>> >> ELSE <<>>)
                 \o FinderMatches(items, terms, i + 1)

\* Finder::update_filtered: the new filtered list
Finder_update_filtered(f) ==
    IF f.query = <<>> \/ split_whitespace(f.query) = <<>>
    THEN AllUnscored(Len(f.items))
    ELSE SortByScore(FinderMatches(f.items, split_whitespace(f.query), 1))

DefaultVisibleHeight == 10

\* Finder::new
Finder_new(items) ==
    [items |-> items, query |-> <<>>, filtered |-> AllUnscored(Len(items)),
     selected |-> 0, scroll_offset |-> 0, visible_height |-> DefaultVisibleHeight]

\* push_char without the reset of the selection
Finder_push_char_keep_selected(f, c) ==
    LET q == [f EXCEPT !.query = Append(f.query, c)]
    IN  [q EXCEPT !.filtered = Finder_update_filtered(q), !.scroll_offset = 0]

\* Finder::push_char
Finder_push_char(f, c) ==
    LET q == [f EXCEPT !.query = Append(f.query, c)]
    IN  [q EXCEPT !.filtered = Finder_update_filtered(q),
                  !.selected = 0, !.scroll_offset = 0]

\* Finder::pop_char
Finder_pop_char(f) ==
    LET q == [f EXCEPT !.query = SubSeq(f.query, 1, Len(f.query) - 1)]
    IN  [q EXCEPT !.filtered = Finder_update_filtered(q),
                  !.selected = 0, !.scroll_offset = 0]

\* Finder::move_up
Finder_move_up(f) ==
    IF f.selected > 0 THEN [f EXCEPT !.selected = f.selected - 1] ELSE f

\* Finder::move_down
Finder_move_down(f) ==
    IF f.selected + 1 < Len(f.filtered) THEN [f EXCEPT !.selected = f.selected + 1] ELSE f

\* Finder::move_up_by
Finder_move_up_by(f, n) == [f EXCEPT !.selected = saturating_sub(f.selected, n)]

\* move_down_by without the min
Finder_move_down_by_unbounded(f, n) == [f EXCEPT !.selected = f.selected + n]

\* Finder::move_down_by
Finder_move_down_by(f, n) ==
    [f EXCEPT !.selected = Min(f.selected + n, saturating_sub(Len(f.filtered), 1))]

\* Finder::selected_item
selected_item(f) ==
    IF f.selected < Len(f.filtered)
    THEN Some(f.items[f.filtered[f.selected + 1][2] + 1])
    ELSE None

\* FinderWidget::render: the overlay is at least 10 rows high, two of them
\* border and two of them the input line and the separator
Finder_items_height(area_height) ==
    saturating_sub(saturating_sub(Max((area_height * 9) \div 10, 10), 2), 2)

\* FinderWidget::render: the state the render leaves in the finder
Finder_render(f, area_height) ==
    LET items_height == Finder_items_height(area_height)
    IN  [f EXCEPT !.visible_height = items_height,
                  !.scroll_offset =
                      IF f.selected < f.scroll_offset THEN f.selected
                      ELSE IF f.selected >= f.scroll_offset + items_height
                      THEN saturating_sub(f.selected, items_height - 1)
                      ELSE f.scroll_offset]

(***************************************************************************)
(* keys.rs                                                                 *)
(*                                                                         *)
(* A key event is [code, mods]; code is a one-character string for         *)
(* KeyCode::Char and the name of the variant otherwise.  Key names and     *)
(* binding patterns are sequences of tokens: "Ctrl-u" is <<"Ctrl-","u">>.  *)
(***************************************************************************)
NamedCodes == {"Esc", "Enter", "Backspace", "Tab", "Up", "Down", "Left", "Right",
               "Home", "End", "PageUp", "PageDown"}

Key(code, mods) == [code |-> code, mods |-> mods]

IsCharKey(key) == key.code \notin NamedCodes

\* key_to_string
key_to_string(key) ==
    (IF "CONTROL" \in key.mods THEN <<"Ctrl-">> ELSE <<>>)
        \o (IF "ALT" \in key.mods THEN <<"Alt-">> ELSE <<>>)
        \o (IF "SHIFT" \in key.mods /\ ~IsCharKey(key) THEN <<"Shift-">> ELSE <<>>)
        \o <<IF key.code = "Esc" THEN "Escape" ELSE key.code>>

\* matches_key
matches_key(pattern, key_str, key) ==
    IF pattern = key_str THEN TRUE
    ELSE IF pattern = <<"Space">> THEN key.code = " "
    ELSE IF pattern = <<"Escape">> \/ pattern = <<"Esc">> THEN key.code = "Esc"
    ELSE IF Head(pattern) = "Ctrl-"
    THEN /\ IsCharKey(key)
         /\ "CONTROL" \in key.mods
         /\ <<LowerChar(key.code)>> = to_lowercase(Tail(pattern))
    ELSE to_lowercase(pattern) = to_lowercase(key_str)

\* KeyConfig::apply_defaults: the default binding table, in the order in
\* which match_key consults it
KeyConfig ==
    << <<"Quit", {<<"q">>, <<"Escape">>}>>,
       <<"ScrollUp", {<<"k">>, <<"Up">>}>>,
       <<"ScrollDown", {<<"j">>, <<"Down">>}>>,
       <<"HalfPageUp", {<<"Ctrl-", "u">>, <<"u">>}>>,
       <<"HalfPageDown", {<<"Ctrl-", "d">>, <<"d">>}>>,
       <<"PageUp", {<<"Ctrl-", "b">>, <<"b">>}>>,
       <<"PageDown", {<<"Ctrl-", "f">>, <<"Space">>}>>,
       <<"Top", {<<"g", "g">>, <<"Home">>}>>,
       <<"Bottom", {<<"G">>, <<"End">>}>>,
       <<"Search", {<<"/">>}>>,
       <<"NextMatch", {<<"n">>}>>,
       <<"PrevMatch", {<<"N">>}>>,
       <<"OpenFinder", {<<"f">>}>>,
       <<"OpenCommand", {<<"o">>}>>,
       <<"Back", {<<"Backspace">>}>>,
       <<"ShowHelp", {<<"?">>}>> >>

\* KeyHandler::match_key: the first action one of whose patterns matches
match_key(key) ==
    LET hits == {i \in 1..Len(KeyConfig) :
                    \E pat \in KeyConfig[i][2] : matches_key(pat, key_to_string(key), key)}
    IN  IF hits = {} THEN None
        ELSE Some(KeyConfig[CHOOSE i \in hits : \A j \in hits : i <= j][1])

\* the keys pressed in Paging while navigating; the search key is pressed
\* only by SearchKeys
PagingKeys ==
    {Key(c, {}) : c \in {"q", "k", "j", "f", "o", "?", "Backspace"}}

\* the keys pressed in Paging while searching
SearchKeys == {Key(c, {}) : c \in {"/", "n", "j"}} \cup {Key("N", {"SHIFT"})}

\* the keys pressed in Paging around the gg sequence: g alone and with
\* Ctrl, keys bound to other actions, and a key bound to nothing
GKeys ==
    {Key(c, {}) : c \in {"g", "j", "k", "q", "x"}}
        \cup {Key("g", {"CONTROL"}), Key("G", {"SHIFT"})}

\* every key the model gives to KeyHandler::handle
AllKeys == PagingKeys \cup SearchKeys \cup GKeys

\* match_key, evaluated once for every key
MatchKeyTable == [key \in AllKeys |-> match_key(key)]

\* a handle that takes any key after a pending g for the second g
KeyHandler_handle_any_second(pending, key) ==
    IF pending
    THEN [pending_g |-> FALSE, action |-> Some("Top")]
    ELSE IF key.code = "g" /\ key.mods = {}
    THEN [pending_g |-> TRUE, action |-> None]
    ELSE [pending_g |-> FALSE, action |-> MatchKeyTable[key]]

\* KeyHandler::handle: the new pending flag and the action
\* KeyHandler::handle that clears the flag only for a second g
KeyHandler_handle_keep_pending(pending, key) ==
    IF pending /\ key.code = "g"
    THEN [pending_g |-> FALSE, action |-> Some("Top")]
    ELSE IF key.code = "g" /\ key.mods = {}
    THEN [pending_g |-> TRUE, action |-> None]
    ELSE [pending_g |-> pending, action |-> MatchKeyTable[key]]

KeyHandler_handle(pending, key) ==
    IF pending /\ key.code = "g"
    THEN [pending_g |-> FALSE, action |-> Some("Top")]
    ELSE IF key.code = "g" /\ key.mods = {}
    THEN [pending_g |-> TRUE, action |-> None]
    ELSE [pending_g |-> FALSE, action |-> MatchKeyTable[key]]

(***************************************************************************)
(* fetcher.rs                                                              *)
(***************************************************************************)
RECURSIVE ReplaceToken(_, _, _)
ReplaceToken(template, token, value) ==
    IF template = <<>> THEN <<>>
    ELSE (IF Head(template) = token THEN value ELSE <<Head(template)>>)
             \o ReplaceToken(Tail(template), token, value)

RECURSIVE JoinWith(_, _)
JoinWith(parts, sep) ==
    IF parts = <<>> THEN <<>>
    ELSE IF Len(parts) = 1 THEN parts[1]
    ELSE parts[1] \o sep \o JoinWith(Tail(parts), sep)

FetchErr == [ok |-> FALSE, content |-> <<>>, source |-> "Help"]

FetchOk(content, source) == [ok |-> TRUE, content |-> content, source |-> source]

\* fetch_help_with_invoke: the placeholders {base} and {name} are single
\* tokens of the template; child is what running the expanded command gave
fetch_help_with_invoke(base_cmd, item_name, invoke_template, child) ==
    LET cmd_str == ReplaceToken(ReplaceToken(invoke_template, "{base}", base_cmd),
                                "{name}", item_name)
    IN  IF split_whitespace(cmd_str) = <<>> THEN FetchErr ELSE child

\* the white space of a whole text
TextSpace == SpaceChars \cup {"\n"}

\* text.trim().is_empty()
trim_is_empty(text) == \A i \in 1..Len(text) : text[i] \in TextSpace

\* looks_like_help
looks_like_help(text) ==
    LET lower == to_lowercase(text)
    IN  \/ contains(lower, W_usage \o <<":">>)
        \/ contains(lower, W_options \o <<":">>)
        \/ contains(lower, W_commands \o <<":">>)
        \/ contains(lower, <<"-","-","h","e","l","p">>)
        \/ contains(lower, <<"s","y","n","o","p","s","i","s">>)

\* char::is_ascii_alphabetic
is_ascii_alphabetic(c) == IsUpper(c) \/ IsLower(c)

\* strip_man_formatting, the inner loop: the position after the CSI sequence
\* whose parameters start at position i (the first ASCII letter is consumed
\* with it; without a letter the rest of the text is consumed)
RECURSIVE CsiEnd(_, _)
CsiEnd(text, i) ==
    IF i > Len(text) THEN i
    ELSE IF is_ascii_alphabetic(text[i]) THEN i + 1
    ELSE CsiEnd(text, i + 1)

\* strip_man_formatting, the outer loop from position i on with the buffer
\* result; "BS" is the backspace \x08 and "ESC" the escape \x1b
RECURSIVE StripFrom(_, _, _)
StripFrom(text, i, result) ==
    IF i > Len(text) THEN result
    ELSE IF text[i] = "BS"
    THEN StripFrom(text, i + 1,
                   IF result = <<>> THEN result ELSE SubSeq(result, 1, Len(result) - 1))
    ELSE IF text[i] = "ESC"
    THEN IF i < Len(text) /\ text[i + 1] = "["
         THEN StripFrom(text, CsiEnd(text, i + 2), result)
         ELSE StripFrom(text, i + 1, result)
    ELSE StripFrom(text, i + 1, Append(result, text[i]))

strip_man_formatting(text) == StripFrom(text, 1, <<>>)

\* what Command::output gave: the child could not be started, or it ran and
\* left its two streams and its exit status
SpawnFailed == [spawned |-> FALSE, stdout |-> <<>>, stderr |-> <<>>, success |-> FALSE]

ChildOutput(stdout, stderr, success) ==
    [spawned |-> TRUE, stdout |-> stdout, stderr |-> stderr, success |-> success]

\* try_help_pattern: the expansion of the placeholders {cmd}, {base} and
\* {sub} (single tokens of the pattern) and the split into words
expand_pattern(cmd, pattern) ==
    split_whitespace(
        ReplaceToken(
            ReplaceToken(
                ReplaceToken(pattern, "{cmd}", JoinWith(cmd, <<" ">>)),
                "{base}", cmd[1]),
            "{sub}", JoinWith(Tail(cmd), <<" ">>)))

\* a try_help_pattern that takes stdout only from a child that exits with zero
try_help_pattern_status(out) ==
    IF ~out.spawned THEN None
    ELSE IF ~trim_is_empty(out.stdout) /\ out.success THEN Some(out.stdout)
    ELSE IF ~trim_is_empty(out.stderr) /\ out.success THEN Some(out.stderr)
    ELSE IF ~trim_is_empty(out.stderr)
    THEN (IF looks_like_help(out.stderr) THEN Some(out.stderr) ELSE None)
    ELSE None

\* try_help_pattern, from Command::output on
try_help_pattern(out) ==
    IF ~out.spawned THEN None
    ELSE IF ~trim_is_empty(out.stdout) THEN Some(out.stdout)
    ELSE IF ~trim_is_empty(out.stderr) /\ out.success THEN Some(out.stderr)
    ELSE IF ~trim_is_empty(out.stderr)
    THEN (IF looks_like_help(out.stderr) THEN Some(out.stderr) ELSE None)
    ELSE None

\* fetch_help_with_invoke, from Command::output on; None stands for Err
invoke_output(out) ==
    IF ~out.spawned THEN None
    ELSE IF ~trim_is_empty(out.stdout) THEN Some(out.stdout)
    ELSE IF ~trim_is_empty(out.stderr) /\ (out.success \/ looks_like_help(out.stderr))
    THEN Some(out.stderr)
    ELSE None

\* Config::get_help_flags and Config::get_subcommand_help_flags; a config
\* holds the user's help_flags for the tool and the tool's toolpack, each
\* an Option
T_help == <<"{cmd}", " ", "-", "-", "h", "e", "l", "p">>

T_h == <<"{cmd}", " ", "-", "h">>

T_base_help == <<"{base}", " ", "h", "e", "l", "p", " ", "{sub}">>

get_help_commands(pack) == IF pack.help = <<>> THEN <<T_help, T_h>> ELSE pack.help

get_subcommand_commands(pack) ==
    IF pack.subcommand = <<>> THEN <<T_help, T_base_help>> ELSE pack.subcommand

get_help_flags(config) ==
    IF IsSome(config.tools) THEN Unwrap(config.tools)
    ELSE IF IsSome(config.toolpack) THEN get_help_commands(Unwrap(config.toolpack))
    ELSE <<T_help, T_h>>

get_subcommand_help_flags(config) ==
    IF IsSome(config.toolpack) THEN get_subcommand_commands(Unwrap(config.toolpack))
    ELSE <<T_help, T_base_help, T_h>>

(***************************************************************************)
(* The environment: what child processes and the terminal can deliver      *)
(***************************************************************************)
\* bounds of the model
MaxQuery == 2

MaxDepth == 1

MaxOrphans == 1

\* the characters the user types into the search line and the overlays
TypeChars == {"a"}

\* the command the program is started with
InitCommand == <<<<"a","b">>>>

\* a help text with a Commands section
DocHelp == <<<<"C","o","m","m","a","n","d","s",":">>, <<" "," ","a"," "," ","x">>, <<>>>>

\* a manual page with a SEE ALSO section
DocMan == <<<<"S","E","E"," ","A","L","S","O">>, <<" "," ","a","b","-","a","(","1",")">>>>

Docs == {DocHelp, DocMan}

Sources == {"Help", "Man"}

\* the outcomes of fetch_best_content
FetchResults == {FetchErr, FetchOk(DocHelp, "Help"), FetchOk(DocMan, "Man")}

\* the outcomes of the child process run by fetch_help_with_invoke
ChildResults == {FetchErr} \cup {FetchOk(d, "Help") : d \in Docs}

\* an item a toolpack discovery source yields
GuideItem == Subcommand(<<"a">>, Some(<<"z">>), Some(<<"G","u","i","d","e","s">>),
                        Some(<<"{base}", " ", "h", " ", "{name}">>))

\* a second toolpack item with the name of GuideItem
GuideDup == Subcommand(<<"a">>, Some(<<"y">>), Some(<<"G","u","i","d","e","s">>),
                       Some(<<"{base}", " ", "h", " ", "{name}">>))

\* discover_items: what the toolpack sources can yield; two sources of a
\* toolpack may yield the same name
ToolpackResults == {<<GuideItem, GuideDup>>}

\* discover_man_pages: what the man -k probe can yield for a base command
ManResults(base_cmd) ==
    {<<Subcommand(base_cmd \o <<"-","a">>, Some(<<"m">>), Some(L_ManPages),
                  Some(ManInvoke(base_cmd \o <<"-","a">>)))>>}

\* the heights of the terminal area
TermHeights == {3}

\* the keys pressed in Searching
SearchingKeys == {Key(c, {}) : c \in TypeChars \cup {"Esc", "Enter", "Backspace", "Tab"}}

\* the keys pressed in Finding
FinderKeys == {Key(c, {}) : c \in {"Esc", "Enter", "Up", "Down"}}

\* the keys pressed in Switching
SwitcherKeys ==
    {Key(c, {}) : c \in TypeChars \cup {"Esc", "Enter", "Backspace"}}

\* the keys pressed in Help
HelpKeys == {Key(c, {}) : c \in {"Esc", "?", "j"}}

(***************************************************************************)
(* The state of App (app.rs), of the discovery channel and of the event    *)
(* loop                                                                    *)
(***************************************************************************)
VARIABLES
    state,              \* App.state
    pager,              \* App.pager
    finder,             \* App.finder: Option<Finder>
    switcher,           \* App.switcher: Option<CommandSwitcher>
    history,            \* App.history.entries
    command_history,    \* App.command_history
    current_command,    \* App.current_command
    subcommands,        \* App.subcommands
    search_input,       \* App.search_input
    pending_g,          \* App.key_handler.pending_g
    should_quit,        \* App.should_quit
    error_message,      \* App.error_message: Option<String>
    content_source,     \* App.content_source
    discovery_receiver, \* App.discovery_receiver: Some(base command) or None
    chan,               \* the channel behind discovery_receiver
    orphans,            \* running workers whose receiver has been dropped
    pc,                 \* position in App::run: "draw" or "event"
    last,               \* the last key event handled and what it did
    call                \* a call of the fetcher or the parser examined on its own

vars == <<state, pager, finder, switcher, history, command_history,
          current_command, subcommands, search_input, pending_g, should_quit,
          error_message, content_source, discovery_receiver, chan, orphans,
          pc, last, call>>

\* parse_subcommands, evaluated once for every text the fetcher can return
ParseTable == [d \in Docs |-> parse_subcommands(d)]

\* the channel of a worker: "running" (nothing sent yet), "sent" (the payload
\* is in the channel), "dead" (the sender is gone and nothing was sent),
\* "none" (there is no receiver)
ChanRunning == [status |-> "running", payload |-> <<>>]

ChanNone == [status |-> "none", payload |-> <<>>]

NoSnapshot == [current_command |-> <<>>, scroll |-> 0, source |-> "Help", history |-> <<>>]

Snapshot ==
    [current_command |-> current_command, scroll |-> pager.scroll,
     source |-> content_source, history |-> history]

\* op: what the key did; ok: whether its fetch succeeded; pre: the state
\* before a drill that succeeded, kept by the Back that follows it at once;
\* round_trip: the key was a Back that followed a successful drill at once
Last(op, ok, pre, round_trip) ==
    [op |-> op, ok |-> ok, pre |-> pre, round_trip |-> round_trip]

\* no call is examined while the app runs
NoCall == [fn |-> "none"]

\* App::new, after a successful initial fetch
Init ==
    \E r \in FetchResults :
        /\ r.ok
        /\ state = "Paging"
        /\ pager = Pager_new(r.content)
        /\ finder = None
        /\ switcher = None
        /\ history = <<>>
        /\ command_history = <<InitCommand[1]>>
        /\ current_command = InitCommand
        /\ subcommands = ParseTable[r.content]
        /\ search_input = <<>>
        /\ pending_g = FALSE
        /\ should_quit = FALSE
        /\ error_message = None
        /\ content_source = r.source
        /\ discovery_receiver = Some(InitCommand[1])
        /\ chan = ChanRunning
        /\ orphans = 0
        /\ pc = "draw"
        /\ last = Last("none", TRUE, NoSnapshot, FALSE)
        /\ call = NoCall

(***************************************************************************)
(* app.rs: the event loop                                                  *)
(***************************************************************************)
\* the navigation stack left as it is
History_kept == history

\* History::new
History_new == <<>>

\* a banner that outlives the key events that follow it
BannerCleared_stale == error_message

\* App::handle_events on a key event: self.error_message = None, before the
\* key is handled
BannerCleared == None

\* spawn_discovery may add one more running worker without a receiver
CanSpawn == chan.status # "running" \/ orphans < MaxOrphans

\* a spawn that goes on reading a channel that already holds a payload
SpawnDiscovery_keep_channel(base_cmd) ==
    /\ discovery_receiver' = Some(base_cmd)
    /\ chan' = IF chan.status = "sent" THEN chan ELSE ChanRunning
    /\ orphans' = IF chan.status = "running" THEN orphans + 1 ELSE orphans

\* self.discovery_receiver = Some(spawn_discovery(base_cmd, ..)): the old
\* receiver is dropped; its worker, if still running, runs on without one
SpawnDiscovery(base_cmd) ==
    /\ discovery_receiver' = Some(base_cmd)
    /\ chan' = ChanRunning
    /\ orphans' = IF chan.status = "running" THEN orphans + 1 ELSE orphans

\* App::draw: clamps the pager to the viewport and renders the open overlay
Draw ==
    \E h \in TermHeights :
        /\ pager' = Pager_clamp_scroll(pager, saturating_sub(h, 1))
        /\ finder' = IF state = "Finding" /\ IsSome(finder)
                     THEN Some(Finder_render(Unwrap(finder), h))
                     ELSE finder

\* poll_discovery with a blocking receive: it returns only when the worker
\* has sent or is gone
PollDiscovery_blocking ==
    /\ IsSome(discovery_receiver) => chan.status # "running"
    /\ IF IsSome(discovery_receiver) /\ chan.status = "sent"
       THEN /\ subcommands' = merge_discovered_items(subcommands, chan.payload)
            /\ discovery_receiver' = None
            /\ chan' = ChanNone
       ELSE IF IsSome(discovery_receiver) /\ chan.status = "dead"
       THEN /\ discovery_receiver' = None
            /\ chan' = ChanNone
            /\ UNCHANGED subcommands
       ELSE UNCHANGED <<subcommands, discovery_receiver, chan>>

\* poll_discovery that takes nothing from the channel
PollDiscovery_never == UNCHANGED <<subcommands, discovery_receiver, chan>>

\* poll_discovery that appends the whole payload
PollDiscovery_extend ==
    IF IsSome(discovery_receiver) /\ chan.status = "sent"
    THEN /\ subcommands' = subcommands \o chan.payload
         /\ discovery_receiver' = None
         /\ chan' = ChanNone
    ELSE IF IsSome(discovery_receiver) /\ chan.status = "dead"
    THEN /\ discovery_receiver' = None
         /\ chan' = ChanNone
         /\ UNCHANGED subcommands
    ELSE UNCHANGED <<subcommands, discovery_receiver, chan>>

\* poll_discovery that merges and keeps the receiver
PollDiscovery_keep_receiver ==
    IF IsSome(discovery_receiver) /\ chan.status = "sent"
    THEN /\ subcommands' = merge_discovered_items(subcommands, chan.payload)
         /\ UNCHANGED <<discovery_receiver, chan>>
    ELSE IF IsSome(discovery_receiver) /\ chan.status = "dead"
    THEN /\ discovery_receiver' = None
         /\ chan' = ChanNone
         /\ UNCHANGED subcommands
    ELSE UNCHANGED <<subcommands, discovery_receiver, chan>>

\* poll_discovery that keeps the receiver of a disconnected channel
PollDiscovery_keep_disconnected ==
    IF IsSome(discovery_receiver) /\ chan.status = "sent"
    THEN /\ subcommands' = merge_discovered_items(subcommands, chan.payload)
         /\ discovery_receiver' = None
         /\ chan' = ChanNone
    ELSE UNCHANGED <<subcommands, discovery_receiver, chan>>

\* App::poll_discovery, the first statement of App::handle_events: try_recv
\* gives the payload, Disconnected or Empty
PollDiscovery ==
    IF IsSome(discovery_receiver) /\ chan.status = "sent"
    THEN /\ subcommands' = merge_discovered_items(subcommands, chan.payload)
         /\ discovery_receiver' = None
         /\ chan' = ChanNone
    ELSE IF IsSome(discovery_receiver) /\ chan.status = "dead"
    THEN /\ discovery_receiver' = None
         /\ chan' = ChanNone
         /\ UNCHANGED subcommands
    ELSE UNCHANGED <<subcommands, discovery_receiver, chan>>

\* one round of the loop of App::run up to the wait for an event: the UI
\* thread draws and then polls the discovery channel, with nothing of its own
\* in between (draw reads and writes neither the channel nor the subcommand
\* list)
Tick ==
    /\ pc = "draw"
    /\ ~should_quit
    /\ Draw
    /\ PollDiscovery
    /\ pc' = "event"
    /\ UNCHANGED <<state, switcher, history, command_history, current_command,
                   search_input, pending_g, should_quit, error_message,
                   content_source, orphans, last, call>>

\* App::handle_events when event::poll times out or the event is not a key
\* (a resize, a mouse event)
IdleTick ==
    /\ pc = "event"
    /\ pc' = "draw"
    /\ UNCHANGED <<state, pager, finder, switcher, history, command_history,
                   current_command, subcommands, search_input, pending_g,
                   should_quit, error_message, content_source,
                   discovery_receiver, chan, orphans, last, call>>

\* the worker thread of the current receiver sends its result
WorkerSend ==
    /\ chan.status = "running"
    /\ \E tp \in ToolpackResults, mp \in ManResults(Unwrap(discovery_receiver)) :
           chan' = [status |-> "sent", payload |-> run_discovery(tp, mp)]
    /\ UNCHANGED <<state, pager, finder, switcher, history, command_history,
                   current_command, subcommands, search_input, pending_g,
                   should_quit, error_message, content_source,
                   discovery_receiver, orphans, pc, last, call>>

\* the worker thread of the current receiver ends without sending (a panic)
WorkerDie ==
    /\ chan.status = "running"
    /\ chan' = [status |-> "dead", payload |-> <<>>]
    /\ UNCHANGED <<state, pager, finder, switcher, history, command_history,
                   current_command, subcommands, search_input, pending_g,
                   should_quit, error_message, content_source,
                   discovery_receiver, orphans, pc, last, call>>

\* a worker whose receiver was dropped finishes: tx.send fails and is ignored
OrphanFinish ==
    /\ orphans > 0
    /\ orphans' = orphans - 1
    /\ UNCHANGED <<state, pager, finder, switcher, history, command_history,
                   current_command, subcommands, search_input, pending_g,
                   should_quit, error_message, content_source,
                   discovery_receiver, chan, pc, last, call>>

(***************************************************************************)
(* app.rs: drill-in, Back and switch                                       *)
(***************************************************************************)
\* is_man_invoke that is true of every invoke template
is_custom_invoke(item) == IsSome(item.invoke_command)

\* is_man_invoke of drill_into_item
is_man_invoke(item) ==
    IsSome(item.invoke_command) /\ starts_with(Unwrap(item.invoke_command), <<"m","a","n"," ">>)

\* the fetch of drill_into_item: env is what the child processes gave
DrillFetch(item, env) ==
    IF IsSome(item.invoke_command)
    THEN LET text == fetch_help_with_invoke(current_command[1], item.name,
                                            Unwrap(item.invoke_command), env)
         IN  IF text.ok
             THEN FetchOk(text.content, IF is_man_invoke(item) THEN "Man" ELSE "Help")
             ELSE FetchErr
    ELSE env

\* App::drill_into_item
drill_into_item(item, env) ==
    LET pushed == History_push(history, current_command, pager.scroll, content_source)
        base_cmd == current_command[1]
        result == DrillFetch(item, env)
        parsed == IF result.ok THEN ParseTable[result.content] ELSE <<>>
    IN  /\ IF result.ok
           THEN /\ history' = pushed
                /\ IF IsSome(item.invoke_command)
                   THEN /\ subcommands' =
                               IF result.source = "Man"
                               THEN merge_discovered_items(parsed,
                                        parse_see_also(result.content, base_cmd))
                               ELSE parsed
                        /\ UNCHANGED <<current_command, discovery_receiver, chan, orphans>>
                   ELSE /\ subcommands' = parsed
                        /\ current_command' = Append(current_command, item.name)
                        /\ SpawnDiscovery(base_cmd)
                /\ content_source' = result.source
                /\ pager' = Pager_new(result.content)
                /\ error_message' = BannerCleared
           ELSE /\ history' = History_pop(pushed)
                /\ error_message' = Some("Could not fetch help")
                /\ UNCHANGED <<subcommands, current_command, discovery_receiver,
                               chan, orphans, content_source, pager>>
        /\ finder' = None
        /\ state' = "Paging"
        /\ last' = Last(IF IsSome(item.invoke_command) THEN "drill_template"
                        ELSE "drill_path", result.ok,
                        IF result.ok THEN Snapshot ELSE NoSnapshot, FALSE)
        /\ UNCHANGED <<switcher, command_history, search_input, pending_g, should_quit>>

\* go_back that takes the source the re-fetch reports
GoBackArms_fetched_source(entry, r, old) ==
    IF r.ok
    THEN [subcommands |-> ParseTable[r.content],
          pager |-> [Pager_new(r.content) EXCEPT !.scroll = entry.scroll_position],
          current_command |-> entry.command,
          content_source |-> r.source,
          error_message |-> old.error_message]
    ELSE [old EXCEPT !.error_message = Some("Could not go back")]

\* go_back that does not restore the scroll position
GoBackArms_no_scroll(entry, r, old) ==
    IF r.ok
    THEN [subcommands |-> ParseTable[r.content],
          pager |-> Pager_new(r.content),
          current_command |-> entry.command,
          content_source |-> entry.source,
          error_message |-> old.error_message]
    ELSE [old EXCEPT !.error_message = Some("Could not go back")]

\* go_back that moves to the popped path before the fetch
GoBackArms_eager(entry, r, old) ==
    IF r.ok
    THEN [subcommands |-> ParseTable[r.content],
          pager |-> [Pager_new(r.content) EXCEPT !.scroll = entry.scroll_position],
          current_command |-> entry.command,
          content_source |-> entry.source,
          error_message |-> old.error_message]
    ELSE [old EXCEPT !.error_message = Some("Could not go back"),
                     !.current_command = entry.command]

\* go_back that keeps the subcommand list of the page it leaves
GoBackArms_keep_list(entry, r, old) ==
    IF r.ok
    THEN [subcommands |-> old.subcommands,
          pager |-> [Pager_new(r.content) EXCEPT !.scroll = entry.scroll_position],
          current_command |-> entry.command,
          content_source |-> entry.source,
          error_message |-> old.error_message]
    ELSE [old EXCEPT !.error_message = Some("Could not go back")]

\* the Ok and Err arms of go_back: the fields the match assigns, given their
\* values before it
GoBackArms(entry, r, old) ==
    IF r.ok
    THEN [subcommands |-> ParseTable[r.content],
          pager |-> [Pager_new(r.content) EXCEPT !.scroll = entry.scroll_position],
          current_command |-> entry.command,
          content_source |-> entry.source,
          error_message |-> old.error_message]
    ELSE [old EXCEPT !.error_message = Some("Could not go back")]

\* App::go_back on a non-empty navigation stack
go_back(r) ==
    LET entry == history[Len(history)]
        new == GoBackArms(entry, r,
                   [subcommands |-> subcommands, pager |-> pager,
                    current_command |-> current_command,
                    content_source |-> content_source,
                    error_message |-> BannerCleared])
    IN  /\ history' = History_pop(history)
        /\ subcommands' = new.subcommands
        /\ pager' = new.pager
        /\ current_command' = new.current_command
        /\ content_source' = new.content_source
        /\ error_message' = new.error_message
        /\ IF r.ok THEN SpawnDiscovery(entry.command[1])
           ELSE UNCHANGED <<discovery_receiver, chan, orphans>>
        /\ last' = IF last.op \in {"drill_template", "drill_path"} /\ last.ok
                   THEN Last("back", r.ok, last.pre, TRUE)
                   ELSE Last("back", r.ok, NoSnapshot, FALSE)

\* the update of command_history without the contains check
push_always(hist, cmd) == Append(hist, cmd)

\* the update of command_history in switch_to_command
push_unique(hist, cmd) ==
    IF \E i \in 1..Len(hist) : hist[i] = cmd THEN hist ELSE Append(hist, cmd)

\* App::switch_to_command
switch_to_command(cmd, r) ==
    /\ IF r.ok
       THEN /\ command_history' = push_unique(command_history, cmd)
            /\ history' = History_new
            /\ subcommands' = ParseTable[r.content]
            /\ pager' = Pager_new(r.content)
            /\ current_command' = <<cmd>>
            /\ content_source' = r.source
            /\ SpawnDiscovery(cmd)
            /\ error_message' = BannerCleared
       ELSE /\ error_message' = Some("Could not fetch help for")
            /\ UNCHANGED <<command_history, history, subcommands, pager,
                           current_command, content_source, discovery_receiver,
                           chan, orphans>>
    /\ switcher' = None
    /\ state' = "Paging"
    /\ last' = Last("switch", r.ok, NoSnapshot, FALSE)
    /\ UNCHANGED <<finder, search_input, pending_g, should_quit>>

(***************************************************************************)
(* app.rs: the key handlers.  Every key event first clears the banner      *)
(* (handle_events), then goes to the handler of the current state.         *)
(***************************************************************************)
PlainKey == Last("key", TRUE, NoSnapshot, FALSE)

\* the search state of a pager: query, match lines, current match index
SearchState(pg) ==
    [search_query |-> pg.search_query, search_matches |-> pg.search_matches,
     current_match |-> pg.current_match]

\* the key opened the search line: pre keeps the search state of the pager
\* at that moment for as long as the state is Searching
SearchOpened == Last("search", TRUE, SearchState(pager), FALSE)

\* the pager after a scrolling or match action of handle_paging_key
PagingPager(action) ==
    CASE action = "ScrollUp" -> Pager_scroll_up(pager, 1)
      [] action = "ScrollDown" -> Pager_scroll_down(pager, 1)
      [] action = "HalfPageUp" -> Pager_scroll_up(pager, 10)
      [] action = "HalfPageDown" -> Pager_scroll_down(pager, 10)
      [] action = "PageUp" -> Pager_scroll_up(pager, 20)
      [] action = "PageDown" -> Pager_scroll_down(pager, 20)
      [] action = "Top" -> Pager_scroll_to_top(pager)
      [] action = "Bottom" -> Pager_scroll_to_bottom(pager, 20)
      [] action = "NextMatch" -> Pager_next_match(pager)
      [] action = "PrevMatch" -> Pager_prev_match(pager)
      [] OTHER -> pager

\* App::handle_paging_key, every action but a Back that has an entry to pop,
\* for a key of the given set
\* KeyHandler::reset_pending: the value it gives the flag
reset_pending == FALSE

\* the key was handled with a g pending and gave an action
AfterPendingG == Last("after_g", TRUE, NoSnapshot, FALSE)

\* Action::OpenFinder with a list that has entries in it
OpensFinder_any_list(action, list) == action = "OpenFinder"

\* Action::OpenFinder: if self.subcommands.is_empty() { banner } else { open }
OpensFinder(action, list) == action = "OpenFinder" /\ list # <<>>

PagingKeyOf(keys) ==
    /\ pc = "event"
    /\ state = "Paging"
    /\ \E key \in keys :
         LET h == KeyHandler_handle(pending_g, key)
             action == IF IsSome(h.action) THEN Unwrap(h.action) ELSE "None"
             open_finder == OpensFinder(action, subcommands)
         IN  /\ ~(action = "Back" /\ history # <<>>)
             /\ pending_g' = IF action \in {"Search", "OpenCommand", "ShowHelp"} \/ open_finder
                            THEN reset_pending
                            ELSE h.pending_g
             /\ should_quit' = (action = "Quit")
             /\ last' = IF action = "Search" THEN SearchOpened
                        ELSE IF pending_g /\ IsSome(h.action) THEN AfterPendingG
                        ELSE PlainKey
             /\ pager' = PagingPager(action)
             /\ state' = CASE action = "Search" -> "Searching"
                           [] open_finder -> "Finding"
                           [] action = "OpenCommand" -> "Switching"
                           [] action = "ShowHelp" -> "Help"
                           [] OTHER -> "Paging"
             /\ search_input' = IF action = "Search" THEN <<>> ELSE search_input
             /\ finder' = IF open_finder THEN Some(Finder_new(subcommands)) ELSE finder
             /\ switcher' = IF action = "OpenCommand"
                            THEN Some(CommandSwitcher_new(command_history))
                            ELSE switcher
             /\ error_message' = IF action = "OpenFinder" /\ subcommands = <<>>
                                 THEN Some("No subcommands found")
                                 ELSE BannerCleared
    /\ pc' = "draw"
    /\ UNCHANGED call
    /\ UNCHANGED <<history, command_history, current_command, subcommands,
                   content_source, discovery_receiver, chan, orphans>>

PagingKey == PagingKeyOf(PagingKeys)

\* App::handle_paging_key, Action::Back with an entry to pop
BackKey ==
    /\ pc = "event"
    /\ state = "Paging"
    /\ history # <<>>
    /\ \E key \in PagingKeys, r \in FetchResults :
         LET h == KeyHandler_handle(pending_g, key)
         IN  /\ h.action = Some("Back")
             /\ r.ok => CanSpawn
             /\ pending_g' = h.pending_g
             /\ go_back(r)
    /\ pc' = "draw"
    /\ UNCHANGED call
    /\ UNCHANGED <<state, finder, switcher, command_history, search_input, should_quit>>

\* App::handle_searching_key
SearchingKey ==
    /\ pc = "event"
    /\ state = "Searching"
    /\ \E key \in SearchingKeys :
         /\ key.code \in TypeChars => Len(search_input) < MaxQuery
         /\ CASE key.code = "Esc" ->
                   /\ state' = "Paging"
                   /\ search_input' = <<>>
                   /\ UNCHANGED pager
                   /\ last' = Last("search_esc", TRUE, last.pre, FALSE)
              [] key.code = "Enter" ->
                   /\ pager' = Pager_set_search(pager, search_input)
                   /\ state' = "Paging"
                   /\ UNCHANGED search_input
                   /\ last' = Last("search_enter", TRUE, last.pre, FALSE)
              [] key.code = "Backspace" ->
                   /\ search_input' = SubSeq(search_input, 1, Len(search_input) - 1)
                   /\ pager' = Pager_set_search(pager, search_input')
                   /\ UNCHANGED <<state, last>>
              [] IsCharKey(key) ->
                   /\ search_input' = Append(search_input, key.code)
                   /\ pager' = Pager_set_search(pager, search_input')
                   /\ UNCHANGED <<state, last>>
              [] OTHER -> UNCHANGED <<state, search_input, pager, last>>
    /\ error_message' = BannerCleared
    /\ pc' = "draw"
    /\ UNCHANGED call
    /\ UNCHANGED <<finder, switcher, history, command_history, current_command,
                   subcommands, pending_g, should_quit, content_source,
                   discovery_receiver, chan, orphans>>

\* Finder::handle_key for the keys that move the selection or edit the query
Finder_handle_key(f, key) ==
    CASE key.code = "Up" /\ key.mods = {} -> Finder_move_up(f)
      [] key.code = "Down" /\ key.mods = {} -> Finder_move_down(f)
      [] key.code = "p" /\ "CONTROL" \in key.mods -> Finder_move_up(f)
      [] key.code = "n" /\ "CONTROL" \in key.mods -> Finder_move_down(f)
      [] key.code = "u" /\ "CONTROL" \in key.mods -> Finder_move_up_by(f, f.visible_height \div 2)
      [] key.code = "d" /\ "CONTROL" \in key.mods -> Finder_move_down_by(f, f.visible_height \div 2)
      [] key.code = "b" /\ "CONTROL" \in key.mods -> Finder_move_up_by(f, f.visible_height)
      [] key.code = "f" /\ "CONTROL" \in key.mods -> Finder_move_down_by(f, f.visible_height)
      [] key.code = "Backspace" -> Finder_pop_char(f)
      [] IsCharKey(key) -> Finder_push_char(f, key.code)
      [] OTHER -> f

\* App::handle_finding_key, every key but an Enter that selects an item
FindingKeyOf(keys) ==
    /\ pc = "event"
    /\ state = "Finding"
    /\ \E key \in keys :
         /\ (IsSome(finder) /\ key.code \in TypeChars) => Len(Unwrap(finder).query) < MaxQuery
         /\ ~(IsSome(finder) /\ key.code = "Enter" /\ IsSome(selected_item(Unwrap(finder))))
         /\ IF IsSome(finder) /\ key.code = "Esc"
            THEN finder' = None /\ state' = "Paging"
            ELSE IF IsSome(finder) /\ key.code # "Enter"
            THEN finder' = Some(Finder_handle_key(Unwrap(finder), key)) /\ UNCHANGED state
            ELSE UNCHANGED <<finder, state>>
    /\ error_message' = BannerCleared
    /\ pc' = "draw"
    /\ UNCHANGED call
    /\ last' = PlainKey
    /\ UNCHANGED <<pager, switcher, history, command_history, current_command,
                   subcommands, search_input, pending_g, should_quit,
                   content_source, discovery_receiver, chan, orphans>>

FindingKey == FindingKeyOf(FinderKeys)

\* App::handle_finding_key, Enter on a selected item: FinderAction::Select
DrillKeyOf(depth) ==
    /\ pc = "event"
    /\ state = "Finding"
    /\ IsSome(finder)
    /\ IsSome(selected_item(Unwrap(finder)))
    /\ LET item == Unwrap(selected_item(Unwrap(finder)))
       IN  \E env \in IF IsSome(item.invoke_command) THEN ChildResults ELSE FetchResults :
               /\ DrillFetch(item, env).ok =>
                      /\ Len(history) < depth
                      /\ IsSome(item.invoke_command)
                             \/ (CanSpawn /\ Len(current_command) <= depth)
               /\ drill_into_item(item, env)
    /\ pc' = "draw"
    /\ UNCHANGED call

DrillKey == DrillKeyOf(MaxDepth)

\* CommandSwitcher::handle_key for the keys that move the selection or edit
\* the query
Switcher_handle_key(sw, key) ==
    CASE key.code = "Up" -> Switcher_move_up(sw)
      [] key.code = "Down" -> Switcher_move_down(sw)
      [] key.code = "p" /\ "CONTROL" \in key.mods -> Switcher_move_up(sw)
      [] key.code = "n" /\ "CONTROL" \in key.mods -> Switcher_move_down(sw)
      [] key.code = "Backspace" -> Switcher_pop_char(sw)
      [] IsCharKey(key) -> Switcher_push_char(sw, key.code)
      [] OTHER -> sw

\* App::handle_switching_key, every key but an Enter that selects a command
SwitchingKeyOf(keys) ==
    /\ pc = "event"
    /\ state = "Switching"
    /\ \E key \in keys :
         /\ (IsSome(switcher) /\ key.code \in TypeChars) => Len(Unwrap(switcher).query) < MaxQuery
         /\ ~(IsSome(switcher) /\ key.code = "Enter" /\ IsSome(selected_command(Unwrap(switcher))))
         /\ IF IsSome(switcher) /\ key.code = "Esc"
            THEN switcher' = None /\ state' = "Paging"
            ELSE IF IsSome(switcher) /\ key.code # "Enter"
            THEN switcher' = Some(Switcher_handle_key(Unwrap(switcher), key)) /\ UNCHANGED state
            ELSE UNCHANGED <<switcher, state>>
    /\ error_message' = BannerCleared
    /\ pc' = "draw"
    /\ UNCHANGED call
    /\ last' = PlainKey
    /\ UNCHANGED <<pager, finder, history, command_history, current_command,
                   subcommands, search_input, pending_g, should_quit,
                   content_source, discovery_receiver, chan, orphans>>

SwitchingKey == SwitchingKeyOf(SwitcherKeys)

\* App::handle_switching_key, Enter on a command: SwitcherAction::Select(cmd)
SwitchKey ==
    /\ pc = "event"
    /\ state = "Switching"
    /\ IsSome(switcher)
    /\ IsSome(selected_command(Unwrap(switcher)))
    /\ LET cmd == Unwrap(selected_command(Unwrap(switcher)))
       IN  \E r \in FetchResults :
               /\ r.ok => CanSpawn
               /\ switch_to_command(cmd, r)
    /\ pc' = "draw"
    /\ UNCHANGED call

\* handle_help_key as its comment has it: any key closes the help overlay
HelpKeyOf_any_key(keys, noted) ==
    /\ pc = "event"
    /\ state = "Help"
    /\ \E key \in keys :
         /\ state' = "Paging"
         /\ last' = IF noted THEN Last("help", TRUE, key, FALSE) ELSE PlainKey
    /\ error_message' = BannerCleared
    /\ pc' = "draw"
    /\ UNCHANGED call
    /\ UNCHANGED <<pager, finder, switcher, history, command_history,
                   current_command, subcommands, search_input, pending_g,
                   should_quit, content_source, discovery_receiver, chan, orphans>>

\* App::handle_help_key for a key of the given set; if noted, last keeps the
\* key in pre
HelpKeyOf(keys, noted) ==
    /\ pc = "event"
    /\ state = "Help"
    /\ \E key \in keys :
         /\ state' = IF key.code \in {"Esc", "q", "?", "Enter"} THEN "Paging" ELSE "Help"
         /\ last' = IF noted THEN Last("help", TRUE, key, FALSE) ELSE PlainKey
    /\ error_message' = BannerCleared
    /\ pc' = "draw"
    /\ UNCHANGED call
    /\ UNCHANGED <<pager, finder, switcher, history, command_history,
                   current_command, subcommands, search_input, pending_g,
                   should_quit, content_source, discovery_receiver, chan, orphans>>

HelpKey == HelpKeyOf(HelpKeys, FALSE)

Next ==
    \/ Tick
    \/ IdleTick
    \/ PagingKey
    \/ BackKey
    \/ FindingKey
    \/ DrillKey
    \/ SwitchingKey
    \/ SwitchKey
    \/ HelpKey
    \/ WorkerSend
    \/ OrphanFinish

Spec == Init /\ [][Next]_vars

(***************************************************************************)
(* Navigation: drill-in, Back and switch                                   *)
(***************************************************************************)
Drills == {"drill_template", "drill_path"}

\* the item Enter drills into and the command Enter switches to
DrillItem == Unwrap(selected_item(Unwrap(finder)))

SwitchCmd == Unwrap(selected_command(Unwrap(switcher)))

\* C1: a drill-in whose fetch fails, by template or by path, leaves the
\* navigation stack, the command path, the source tag, the pager (content and
\* scroll) and the subcommand list exactly as they were before Enter; the
\* state is Paging, the finder is closed and the banner is set.
C1_FailedDrillRollsBack ==
    [][(DrillKey /\ ~last'.ok) =>
          /\ history' = history
          /\ current_command' = current_command
          /\ content_source' = content_source
          /\ pager' = pager
          /\ subcommands' = subcommands
          /\ state' = "Paging"
          /\ finder' = None
          /\ IsSome(error_message')]_vars

C1_Witness ==
    /\ last.op = "drill_path"
    /\ ~last.ok
    /\ history # <<>>
    /\ pager.scroll = 1
    /\ IsSome(error_message)

\* C2: a path drill that succeeds from path P, scroll s and source t pushes
\* exactly (P, s, t) on the stack, makes the path P followed by the item's
\* name, shows the new content at scroll 0 and ends in Paging.
C2_PathDrillPushes ==
    [][(DrillKey /\ last'.op = "drill_path" /\ last'.ok) =>
          /\ history' = Append(history,
                 [command |-> current_command, scroll_position |-> pager.scroll,
                  source |-> content_source])
          /\ current_command' = Append(current_command, DrillItem.name)
          /\ pager'.scroll = 0
          /\ \E r \in FetchResults :
                 r.ok /\ pager'.content = r.content /\ content_source' = r.source
          /\ state' = "Paging"]_vars

C2_Witness ==
    /\ last.op = "drill_path"
    /\ last.ok
    /\ last.pre.scroll = 1
    /\ Len(history) = 1
    /\ history[1].scroll_position = 1
    /\ Len(current_command) = 2
    /\ pager.scroll = 0

\* C3: a template drill that succeeds leaves the command path unchanged,
\* grows the stack by exactly one entry, leaves the discovery receiver as it
\* was, and makes the source Man exactly when the template begins with
\* "man ", Help otherwise.
C3_TemplateDrill ==
    [][(DrillKey /\ last'.op = "drill_template" /\ last'.ok) =>
          /\ current_command' = current_command
          /\ Len(history') = Len(history) + 1
          /\ SubSeq(history', 1, Len(history)) = history
          /\ discovery_receiver' = discovery_receiver
          /\ chan' = chan
          /\ orphans' = orphans
          /\ content_source' =
                 IF starts_with(Unwrap(DrillItem.invoke_command), <<"m","a","n"," ">>)
                 THEN "Man" ELSE "Help"]_vars

C3_Witness ==
    /\ last.op = "drill_template"
    /\ last.ok
    /\ content_source = "Help"
    /\ Len(history) = 1
    /\ Len(current_command) = 1

\* C4: a Back that succeeds on a non-empty stack with top entry E removes E
\* from the stack, makes the path E's path, the scroll E's scroll position
\* and the source E's source, also when the re-fetch reports another source.
C4_BackRestores ==
    [][(BackKey /\ last'.ok) =>
          LET E == history[Len(history)]
          IN  /\ history' = SubSeq(history, 1, Len(history) - 1)
              /\ current_command' = E.command
              /\ pager'.scroll = E.scroll_position
              /\ content_source' = E.source]_vars

\* the re-fetch gave the manual page while the popped entry said Help
C4_Witness ==
    /\ last.op = "back"
    /\ last.ok
    /\ pc = "draw"
    /\ content_source = "Help"
    /\ pager.content = DocMan
    /\ pager.scroll = 1

\* C5: a drill that succeeds, followed at once by a Back that succeeds,
\* restores the command path, the scroll position, the source tag and the
\* navigation stack of before the drill.
C5_RoundTrip ==
    [][(last.op \in Drills /\ last.ok /\ last'.ok /\ BackKey) =>
          /\ current_command' = last.pre.current_command
          /\ pager'.scroll = last.pre.scroll
          /\ content_source' = last.pre.source
          /\ history' = last.pre.history]_vars

C5_Witness ==
    /\ last.op = "back"
    /\ last.ok
    /\ last.round_trip
    /\ last.pre.scroll = 1
    /\ pager.scroll = 1
    /\ current_command = last.pre.current_command

\* C6: a Back whose fetch fails leaves the command path, the pager (content
\* and scroll), the subcommand list and the source tag as they were; the
\* banner is set and the state stays Paging.
C6_FailedBackKeepsPage ==
    [][(BackKey /\ ~last'.ok) =>
          /\ current_command' = current_command
          /\ pager' = pager
          /\ subcommands' = subcommands
          /\ content_source' = content_source
          /\ IsSome(error_message')
          /\ state' = "Paging"]_vars

C6_Witness ==
    /\ last.op = "back"
    /\ ~last.ok
    /\ IsSome(error_message)
    /\ Len(current_command) = 2
    /\ pager.scroll = 1

\* C7: after a Back whose fetch fails the navigation stack is the same as
\* before the Back (the popped entry is not lost).
C7_FailedBackKeepsStack ==
    [][(BackKey /\ ~last'.ok) => history' = history]_vars

\* C8: a switch to c that succeeds makes the path [c], empties the stack,
\* has c in the command history, closes the switcher, ends in Paging and
\* replaces the receiver by that of a fresh worker keyed on c; a switch that
\* fails leaves path, stack and command history unchanged, sets the banner
\* and ends in Paging.
C8_Switch ==
    [][SwitchKey =>
          IF last'.ok
          THEN /\ current_command' = <<SwitchCmd>>
               /\ history' = <<>>
               /\ \E i \in 1..Len(command_history') : command_history'[i] = SwitchCmd
               /\ switcher' = None
               /\ state' = "Paging"
               /\ discovery_receiver' = Some(SwitchCmd)
               /\ chan' = [status |-> "running", payload |-> <<>>]
               /\ orphans' = IF chan.status = "running" THEN orphans + 1 ELSE orphans
          ELSE /\ current_command' = current_command
               /\ history' = history
               /\ command_history' = command_history
               /\ IsSome(error_message')
               /\ state' = "Paging"]_vars

\* a switch to a new command from inside a subcommand, while the worker of
\* the old command was still running
C8_Witness ==
    /\ last.op = "switch"
    /\ last.ok
    /\ pc = "draw"
    /\ current_command = <<<<"a","a">>>>
    /\ command_history = <<<<"a","b">>, <<"a","a">>>>
    /\ orphans = 1

\* C9: the command history never holds a string twice, every step keeps its
\* entries in place and in order (it only grows at the end), and a switch to
\* a command that is already in it leaves it unchanged.
C9_CommandHistory ==
    [][/\ \A i, j \in 1..Len(command_history') :
              command_history'[i] = command_history'[j] => i = j
       /\ Len(command_history') >= Len(command_history)
       /\ SubSeq(command_history', 1, Len(command_history)) = command_history
       /\ (SwitchKey
               /\ \E i \in 1..Len(command_history) : command_history[i] = SwitchCmd)
              => command_history' = command_history]_vars

\* a switch back to the first command, with two commands in the history
C9_Witness ==
    /\ last.op = "switch"
    /\ last.ok
    /\ Len(command_history) = 2
    /\ current_command = <<command_history[1]>>

\* C10: in Switching, for every typed query that is no entry of the command
\* history, Enter selects exactly the typed name.
C10_TypedNameSelected ==
    (state = "Switching" /\ IsSome(switcher)) =>
        LET sw == Unwrap(switcher)
        IN  (sw.query # <<>> /\ \A i \in 1..Len(sw.history) : sw.history[i] # sw.query)
                => selected_command(sw) = Some(sw.query)

(***************************************************************************)
(* Errors at run time                                                      *)
(***************************************************************************)
\* App::handle_events reads a key event and App::handle_key handles it
KeyEvent ==
    PagingKey \/ BackKey \/ FindingKey \/ DrillKey \/ SwitchingKey \/ SwitchKey \/ HelpKey

\* a drill-in, a Back or a switch whose fetch fails
FetchFailed == ~last'.ok /\ (DrillKey \/ BackKey \/ SwitchKey)

\* the banners of the Err arms of drill_into_item, go_back and switch_to_command
FetchBanners ==
    {Some("Could not fetch help"), Some("Could not go back"), Some("Could not fetch help for")}

\* C11: a drill-in, Back or switch whose fetch fails never sets the terminate
\* flag and never leaves the event loop (the handler returns Ok and the loop
\* goes on to the next draw); it only sets its banner. Every key event clears
\* the banner first: after a key event a banner is shown only when the
\* handling of that very event set one.
C11_FailureOnlySetsBanner ==
    [][/\ FetchFailed =>
              /\ ~should_quit'
              /\ pc' = "draw"
              /\ error_message' \in FetchBanners
       /\ (IsSome(error_message') /\ KeyEvent) =>
              \/ FetchFailed
              \/ /\ PagingKey
                 /\ subcommands = <<>>
                 /\ error_message' = Some("No subcommands found")]_vars

\* a switch has failed: the banner is up and the loop goes on
C11_Witness ==
    /\ last.op = "switch"
    /\ ~last.ok
    /\ error_message = Some("Could not fetch help for")
    /\ ~should_quit
    /\ pc = "draw"
    /\ history # <<>>

(***************************************************************************)
(* Discovery: the receiver and its worker                                  *)
(***************************************************************************)
\* the steps that assign a new receiver: a path drill, a Back or a switch
\* that succeeds
ReceiverReplaced ==
    \/ last'.op = "drill_path" /\ last'.ok /\ DrillKey
    \/ last'.ok /\ BackKey
    \/ last'.ok /\ SwitchKey

\* what a worker keyed on base_cmd can send
KeyedPayloads(base_cmd) ==
    {run_discovery(tp, mp) : tp \in ToolpackResults, mp \in ManResults(base_cmd)}

\* C12: a step that replaces the receiver leaves a fresh, empty channel,
\* whatever the channel of the earlier worker held; a worker without receiver
\* that finishes changes neither the subcommand list nor the channel; the
\* only payload a tick merges is the one in the channel of the current
\* receiver, and that payload was sent by a worker keyed on the base command
\* of the current receiver, which is the base of the command shown.
C12_OnlyLatestWorkerObserved ==
    [][/\ ReceiverReplaced =>
              /\ chan' = ChanRunning
              /\ discovery_receiver' = Some(current_command'[1])
       /\ (~(subcommands' = subcommands /\ chan' = chan)) => ~OrphanFinish
       /\ (subcommands' # subcommands /\ Tick) =>
              /\ chan.status = "sent"
              /\ subcommands' = merge_discovered_items(subcommands, chan.payload)
       /\ (chan'.status = "sent") =>
              /\ IsSome(discovery_receiver')
              /\ Unwrap(discovery_receiver') = current_command'[1]
              /\ chan'.payload \in KeyedPayloads(current_command'[1])]_vars

\* a switch replaced the receiver while the old worker was still running;
\* the new worker has sent, the old one has not finished yet
C12_Witness ==
    /\ last.op = "switch"
    /\ last.ok
    /\ orphans = 1
    /\ chan.status = "sent"
    /\ discovery_receiver = Some(<<"a","a">>)

(***************************************************************************)
(* app.rs: the discovery worker step by step                               *)
(***************************************************************************)
\* a sub-task of run_discovery (a scoped thread): still running, finished
\* with its items, or panicked
SubtaskRunning == [st |-> "running", items |-> <<>>]

SubtaskDone(items) == [st |-> "done", items |-> items]

SubtaskPanicked == [st |-> "panicked", items |-> <<>>]

\* a toolpack item with the name of a manual page
PageGuide == Subcommand(<<"a","b","-","a">>, None, Some(<<"G","u","i","d","e","s">>),
                        Some(<<"{base}", " ", "h", " ", "{name}">>))

\* discover_items: what the toolpack sources can yield, repeated names included
DiscToolpackResults == {<<>>, <<GuideItem>>, <<GuideItem, GuideDup>>, <<PageGuide>>}

\* the Subcommand discover_man_pages builds from a line of man -k
ManPage(name, description) ==
    Subcommand(name, description, Some(L_ManPages), Some(ManInvoke(name)))

\* discover_man_pages: what man -k can list for a base command; a page
\* listed in two sections comes twice
DiscManResults(base_cmd) ==
    {<<>>,
     <<ManPage(base_cmd \o <<"-","a">>, Some(<<"m">>))>>,
     <<ManPage(base_cmd \o <<"-","a">>, Some(<<"m">>)),
       ManPage(base_cmd \o <<"-","a">>, Some(<<"n">>))>>,
     <<ManPage(base_cmd \o <<"-","b">>, None),
       ManPage(base_cmd \o <<"-","a">>, Some(<<"m">>))>>}

\* the thread spawn_discovery starts, and its channel: both sub-tasks are
\* running, run_discovery waits in toolpack_handle.join(); first records
\* which sub-task finished first
WorkerStart ==
    [status |-> "running", payload |-> <<>>,
     toolpack_handle |-> SubtaskRunning, man_handle |-> SubtaskRunning,
     all |-> <<>>, at |-> "join_toolpack", first |-> "none"]

\* App::new with the worker of the initial command just started
DiscInit ==
    \E r \in FetchResults :
        /\ r.ok
        /\ state = "Paging"
        /\ pager = Pager_new(r.content)
        /\ finder = None
        /\ switcher = None
        /\ history = <<>>
        /\ command_history = <<InitCommand[1]>>
        /\ current_command = InitCommand
        /\ subcommands = ParseTable[r.content]
        /\ search_input = <<>>
        /\ pending_g = FALSE
        /\ should_quit = FALSE
        /\ error_message = None
        /\ content_source = r.source
        /\ discovery_receiver = Some(InitCommand[1])
        /\ chan = WorkerStart
        /\ orphans = 0
        /\ pc = "draw"
        /\ last = Last("none", TRUE, NoSnapshot, FALSE)
        /\ call = NoCall

\* a step of the worker thread leaves the UI thread's state alone
WorkerFrame ==
    UNCHANGED <<state, pager, finder, switcher, history, command_history,
                current_command, subcommands, search_input, pending_g,
                should_quit, error_message, content_source,
                discovery_receiver, orphans, pc, last, call>>

\* run_discovery: the scoped thread of discover_items ends
SubtaskToolpack ==
    /\ chan.status = "running"
    /\ chan.toolpack_handle.st = "running"
    /\ \E out \in {SubtaskDone(tp) : tp \in DiscToolpackResults} \cup {SubtaskPanicked} :
           chan' = [chan EXCEPT !.toolpack_handle = out,
                                !.first = IF chan.first = "none" THEN "toolpack" ELSE @]
    /\ WorkerFrame

\* run_discovery: the scoped thread of discover_man_pages ends
SubtaskMan ==
    /\ chan.status = "running"
    /\ chan.man_handle.st = "running"
    /\ \E out \in {SubtaskDone(mp) : mp \in DiscManResults(Unwrap(discovery_receiver))}
                      \cup {SubtaskPanicked} :
           chan' = [chan EXCEPT !.man_handle = out,
                                !.first = IF chan.first = "none" THEN "man" ELSE @]
    /\ WorkerFrame

\* a join of run_discovery that does not wait for its sub-task
JoinReady_eager(handle) == TRUE

\* JoinHandle::join returns only when the thread has ended
JoinReady(handle) == handle.st # "running"

\* run_discovery: if let Ok(items) = toolpack_handle.join() { all.extend(items) }
JoinToolpack ==
    /\ chan.status = "running"
    /\ chan.at = "join_toolpack"
    /\ JoinReady(chan.toolpack_handle)
    /\ chan' = [chan EXCEPT !.all = IF chan.toolpack_handle.st = "done"
                                     THEN @ \o chan.toolpack_handle.items ELSE @,
                            !.at = "join_man"]
    /\ WorkerFrame

\* run_discovery: if let Ok(pages) = man_handle.join() { merge_discovered_items(&mut all, pages) }
JoinMan ==
    /\ chan.status = "running"
    /\ chan.at = "join_man"
    /\ JoinReady(chan.man_handle)
    /\ chan' = [chan EXCEPT !.all = IF chan.man_handle.st = "done"
                                     THEN merge_discovered_items(@, chan.man_handle.items)
                                     ELSE @,
                            !.at = "send"]
    /\ WorkerFrame

\* spawn_discovery: let _ = tx.send(results), the last statement of the thread
SendResults ==
    /\ chan.status = "running"
    /\ chan.at = "send"
    /\ chan' = [chan EXCEPT !.status = "sent", !.payload = chan.all, !.at = "done"]
    /\ WorkerFrame

\* the keys that scroll by a line
ScrollKeys == {Key(c, {}) : c \in {"j", "k"}}

\* App::handle_paging_key on a scroll key
ScrollKey == PagingKeyOf(ScrollKeys)

DiscNext ==
    \/ Tick
    \/ IdleTick
    \/ ScrollKey
    \/ SubtaskToolpack
    \/ SubtaskMan
    \/ JoinToolpack
    \/ JoinMan
    \/ SendResults
    \/ WorkerDie

DiscSpec == DiscInit /\ [][DiscNext]_vars

\* C13: a payload enters the channel only by the one send that ends the
\* worker thread, and a worker that has sent or died takes no further step;
\* a tick that finds a payload or a disconnected channel discards the
\* receiver in the same step; the subcommand list changes only in a tick
\* that takes the payload from a live receiver, and never while there is no
\* receiver: each receiver is merged at most once.
C13_AtMostOneMerge ==
    [][/\ (chan'.status = "sent" /\ chan.status # "sent") => SendResults
       /\ (chan.status \in {"sent", "dead"}) =>
              \/ chan' = chan
              \/ Tick /\ chan' = ChanNone /\ discovery_receiver' = None
       /\ (Tick /\ IsSome(discovery_receiver) /\ chan.status \in {"sent", "dead"}) =>
              (discovery_receiver' = None /\ chan' = ChanNone)
       /\ (subcommands' # subcommands) =>
              /\ Tick
              /\ IsSome(discovery_receiver)
              /\ chan.status = "sent"
              /\ discovery_receiver' = None
       /\ (discovery_receiver = None) =>
              (subcommands' = subcommands /\ discovery_receiver' = None)]_vars

\* the payload of the worker has been merged and the receiver is gone
C13_Witness ==
    /\ discovery_receiver = None
    /\ chan = ChanNone
    /\ subcommands # ParseTable[pager.content]
    /\ Len(subcommands) = 2

\* C14: whatever the worker is doing (running, payload sent, dead, or no
\* worker at all), the draw-and-poll step of the loop can be taken as soon as
\* the loop is at it, and once the poll is done the wait for an event can
\* end and a key can be handled: no step of the UI thread waits for the
\* worker.
C14_NeverBlocks ==
    /\ chan.status \in {"running", "sent", "dead", "none"}
    /\ (pc = "draw" /\ ~should_quit) => ENABLED Tick
    /\ (pc = "event") => (ENABLED IdleTick /\ ENABLED ScrollKey)

\* a key has been handled and the next poll has returned while one sub-task
\* of the worker is still running
C14_Witness ==
    /\ chan.status = "running"
    /\ chan.man_handle.st = "running"
    /\ chan.toolpack_handle.st = "done"
    /\ chan.at = "join_man"
    /\ last.op = "key"
    /\ pager.scroll = 1
    /\ pc = "event"

\* the loop of App::run keeps turning: a draw and poll that can be done is
\* done, and the wait for an event ends by its timeout of 100 ms
DiscLive == DiscSpec /\ WF_vars(Tick) /\ WF_vars(IdleTick)

\* the subcommand lists App::new can start with
DiscLists == {ParseTable[d] : d \in Docs}

\* what the two sub-tasks of a worker can end with
DiscOutcomes(results) == {SubtaskDone(x) : x \in results} \cup {SubtaskPanicked}

\* every payload a worker of the initial command can send
DiscPayloads ==
    {merge_discovered_items(tp.items, mp.items) :
        tp \in DiscOutcomes(DiscToolpackResults),
        mp \in DiscOutcomes(DiscManResults(InitCommand[1]))}

\* C15: when the worker has sent payload p while the subcommand list is L
\* (and nothing replaces the receiver), then with the loop turning the list
\* eventually is L merged with p and the receiver is discarded.
C15_PayloadEventuallyMerged ==
    \A L \in DiscLists, p \in DiscPayloads :
        (chan.status = "sent" /\ chan.payload = p /\ subcommands = L)
            ~> (/\ subcommands = merge_discovered_items(L, p)
                /\ discovery_receiver = None
                /\ chan = ChanNone)

\* a payload of two new items has been merged behind the parsed entry
C15_Witness ==
    /\ discovery_receiver = None
    /\ Len(subcommands) = 3
    /\ subcommands[1] = ParseTable[DocHelp][1]
    /\ subcommands[2] = PageGuide

(***************************************************************************)
(* Discovery: the merge                                                    *)
(***************************************************************************)
\* the positions of D whose name is neither in L nor at an earlier position
\* of D
NewNames(L, D) ==
    {i \in 1..Len(D) :
        (\A k \in 1..Len(L) : L[k].name # D[i].name)
            /\ (\A j \in 1..(i - 1) : D[j].name # D[i].name)}

\* the items of D at the positions I, from position i on, in the order of D
RECURSIVE Restrict(_, _, _)
Restrict(D, I, i) ==
    IF i > Len(D) THEN <<>>
    ELSE (IF i \in I THEN <<D[i]>> ELSE <<>>) \o Restrict(D, I, i + 1)

\* R is L followed by the items of D with a new name, in the order of D
MergedFrom(R, L, D) ==
    /\ Len(R) >= Len(L)
    /\ SubSeq(R, 1, Len(L)) = L
    /\ SubSeq(R, Len(L) + 1, Len(R)) = Restrict(D, NewNames(L, D), 1)

\* C16: wherever merge_discovered_items is applied (the poll merges the
\* payload D into the subcommand list L, the worker merges the manual pages
\* D into its list L) the result is L unchanged, entry by entry, followed in
\* the order of D by exactly the items of D whose name is not yet present;
\* an item whose name is present is dropped and the present entry stays.
C16_MergeAppendsNewNames ==
    [][/\ (Tick /\ IsSome(discovery_receiver) /\ chan.status = "sent") =>
              MergedFrom(subcommands', subcommands, chan.payload)
       /\ (JoinMan /\ chan.man_handle.st = "done") =>
              MergedFrom(chan'.all, chan.all, chan.man_handle.items)]_vars

\* the payload held an item named like the parsed entry and a new manual
\* page: the parsed entry is kept and only the page is appended
C16_Witness ==
    /\ discovery_receiver = None
    /\ chan = ChanNone
    /\ subcommands = <<ParseTable[DocHelp][1],
                       ManPage(InitCommand[1] \o <<"-","a">>, Some(<<"m">>))>>
    /\ subcommands[1].description # GuideItem.description

\* C17: in every reachable state the names of the live subcommand list are
\* pairwise distinct, whatever drill-ins, Backs, switches, SEE ALSO merges
\* and merges of payloads with repeated names came before.
C17_NamesUnique ==
    \A i, j \in 1..Len(subcommands) :
        subcommands[i].name = subcommands[j].name => i = j

\* after a drill and a Back, a payload that holds the name of GuideItem twice
\* has been merged into the list parsed from the manual page
C17_Witness ==
    /\ last.op = "back"
    /\ last.ok
    /\ chan = ChanNone
    /\ Len(subcommands) = 2
    /\ subcommands[1] = GuideItem
    /\ \A tp \in ToolpackResults : Len(tp) = 2 /\ tp[1].name = tp[2].name

(***************************************************************************)
(* Discovery: the payload of one worker                                    *)
(***************************************************************************)
\* the positions of D whose name is not among the names of L
NotIn(L, D) ==
    {i \in 1..Len(D) : \A k \in 1..Len(L) : L[k].name # D[i].name}

\* C18 as stated: the worker sends only after both sub-tasks have ended and
\* been joined, and what it sends is the toolpack items followed by the
\* manual-page items whose name is not the name of a toolpack item, whichever
\* sub-task ended first.
C18_PayloadToolpackThenPages ==
    [][SendResults =>
          /\ chan.toolpack_handle.st # "running"
          /\ chan.man_handle.st # "running"
          /\ chan'.payload =
                 chan.toolpack_handle.items
                     \o Restrict(chan.man_handle.items,
                                 NotIn(chan.toolpack_handle.items,
                                       chan.man_handle.items), 1)]_vars

\* C18: the worker sends only after both sub-tasks have ended and been
\* joined (a panicked sub-task counts with no items), and what it sends is
\* the toolpack items, all of them and in their order, followed in their
\* order by the manual-page items whose name is neither the name of a
\* toolpack item nor the name of an earlier manual-page item; the payload is
\* the same whichever sub-task ended first.
C18_PayloadToolpackThenNewPages ==
    [][SendResults =>
          /\ chan.toolpack_handle.st # "running"
          /\ chan.man_handle.st # "running"
          /\ chan.first \in {"toolpack", "man"}
          /\ MergedFrom(chan'.payload, chan.toolpack_handle.items,
                        chan.man_handle.items)]_vars

\* the manual pages came first and held two pages, one of them named like
\* the toolpack item: the payload still starts with the toolpack item
C18_Witness ==
    /\ chan.status = "sent"
    /\ chan.first = "man"
    /\ chan.toolpack_handle.st = "done"
    /\ chan.man_handle.st = "done"
    /\ Len(chan.man_handle.items) = 2
    /\ chan.payload = <<PageGuide, chan.man_handle.items[1]>>

(***************************************************************************)
(* Discovery: a worker that ends without sending                           *)
(***************************************************************************)
\* what a tick that finds an empty payload leaves behind: the subcommand
\* list as it was, no receiver, no banner and no terminate flag set, every
\* other field of the UI as it was, and the loop at its wait for an event
ObservedAsEmpty ==
    /\ subcommands' = merge_discovered_items(subcommands, <<>>)
    /\ subcommands' = subcommands
    /\ discovery_receiver' = None
    /\ chan' = ChanNone
    /\ error_message' = error_message
    /\ should_quit' = should_quit
    /\ ~should_quit'
    /\ pc' = "event"
    /\ UNCHANGED <<state, switcher, history, command_history, current_command,
                   search_input, pending_g, content_source>>

\* C19: the tick that finds the channel disconnected (the worker thread
\* ended without sending) and the tick that receives an empty list have the
\* same effect: the subcommand list is unchanged, the receiver is discarded,
\* no banner and no terminate flag is set, and the loop goes on to wait for
\* the next event.
C19_DeathObservedAsEmptyResult ==
    [][/\ (Tick /\ IsSome(discovery_receiver) /\ chan.status = "dead") =>
              ObservedAsEmpty
       /\ (Tick /\ IsSome(discovery_receiver) /\ chan.status = "sent"
                /\ chan.payload = <<>>) => ObservedAsEmpty]_vars

\* the worker has ended without sending, its receiver is still held, and
\* the next tick of the UI is about to poll the channel
C19_Witness ==
    /\ chan.status = "dead"
    /\ IsSome(discovery_receiver)
    /\ error_message = None
    /\ subcommands = ParseTable[pager.content]
    /\ pc = "draw"
    /\ ENABLED Tick

(***************************************************************************)
(* keys.rs: the gg sequence                                                *)
(***************************************************************************)
\* App::handle_paging_key on one key
GKeyOf(key) == PagingKeyOf({key})

\* App::handle_paging_key on a key of the gg sequence
GKey == \E key \in GKeys : GKeyOf(key)

\* the loop of App::run with the keys that fetch nothing
KeyNext ==
    \/ Tick
    \/ IdleTick
    \/ GKey
    \/ PagingKey
    \/ FindingKey
    \/ SwitchingKey
    \/ HelpKey
    \/ WorkerSend

KeySpec == Init /\ [][KeyNext]_vars

\* the name of an Option<Action>
ActionName(a) == IF IsSome(a) THEN Unwrap(a) ELSE "None"

\* what handle_paging_key does to the pager, the terminate flag and the
\* state for an action that opens nothing
YieldsAction(name) ==
    /\ pager' = PagingPager(name)
    /\ should_quit' = (name = "Quit")
    /\ state' = "Paging"

AppAtRest ==
    /\ state = "Paging"
    /\ pager = Pager_new(<<>>)
    /\ finder = None
    /\ switcher = None
    /\ history = <<>>
    /\ command_history = <<>>
    /\ current_command = <<>>
    /\ subcommands = <<>>
    /\ search_input = <<>>
    /\ pending_g = FALSE
    /\ should_quit = FALSE
    /\ error_message = None
    /\ content_source = "Help"
    /\ discovery_receiver = None
    /\ chan = ChanNone
    /\ orphans = 0
    /\ pc = "draw"
    /\ last = Last("none", TRUE, NoSnapshot, FALSE)

AppFrame ==
    UNCHANGED <<state, pager, finder, switcher, history, command_history,
                current_command, subcommands, search_input, pending_g,
                should_quit, error_message, content_source,
                discovery_receiver, chan, orphans, pc, last>>

\* the command paths given to fetch_help
FetchCmds == {<<>>, InitCommand, InitCommand \o <<<<"c">>>>}

\* the configurations: nothing for the tool, the user's help_flags (the
\* first of them expands to nothing), a toolpack without templates, a
\* toolpack with its own templates
FetchConfigs ==
    {[tools |-> None, toolpack |-> None],
     [tools |-> Some(<<<<" ">>, T_h>>), toolpack |-> None],
     [tools |-> None, toolpack |-> Some([help |-> <<>>, subcommand |-> <<>>])],
     [tools |-> None,
      toolpack |-> Some([help |-> <<T_h, T_help>>, subcommand |-> <<T_base_help>>])]}

\* what a help command can write to stdout and to stderr
StdoutTexts == {<<>>, <<" ", "\n">>, <<"x">>}

StderrTexts == {<<>>, <<"\n">>, <<"x">>, <<"U", "s", "a", "g", "e", ":">>}

ChildOutputs ==
    {SpawnFailed}
        \cup {ChildOutput(o, e, st) : o \in StdoutTexts, e \in StderrTexts, st \in BOOLEAN}

\* what man can write: nothing, a bold letter, a bare CSI sequence
ManTexts == {<<>>, <<"N", "BS", "N">>, <<"ESC", "[", "1", "m">>}

ManOutputs ==
    {SpawnFailed, ChildOutput(<<>>, <<"x">>, FALSE)}
        \cup {ChildOutput(o, <<>>, TRUE) : o \in ManTexts}

\* a call of fetch_help: its arguments, the templates chosen, the index of
\* the next template, the child processes run so far with what they gave,
\* the position in the function and the value returned (None stands for Err)
FetchCall(cmd, config) ==
    [fn |-> "fetch_help", cmd |-> cmd, config |-> config, help_flags |-> <<>>,
     i |-> 1, log |-> <<>>, at |-> "entry", result |-> None]

\* a call of fetch_help_with_invoke
InvokeCall(base_cmd, item_name, invoke_template) ==
    [fn |-> "fetch_help_with_invoke", base_cmd |-> base_cmd, item_name |-> item_name,
     invoke_template |-> invoke_template, log |-> <<>>, at |-> "entry", result |-> None]

\* the templates of the items drilled into: a toolpack item's, a manual
\* page's, one that expands to nothing
InvokeTemplates == {GuideItem.invoke_command[1], ManInvoke(<<"{name}">>), <<" ">>}

FetchInit ==
    /\ AppAtRest
    /\ \/ \E cmd \in FetchCmds, config \in FetchConfigs : call = FetchCall(cmd, config)
       \/ \E t \in InvokeTemplates : call = InvokeCall(InitCommand[1], <<"a">>, t)

\* a child process run by template i (0 for the manual-page fallback)
Ran(i, argv, out) == [i |-> i, argv |-> argv, out |-> out]

Returned(c, result) == [c EXCEPT !.at = "done", !.result = result]

\* fetch_help: the check of the command path and the choice of the templates
FetchEntry ==
    /\ call.fn = "fetch_help"
    /\ call.at = "entry"
    /\ call' = IF call.cmd = <<>> THEN Returned(call, None)
               ELSE [call EXCEPT !.at = "flags",
                                 !.help_flags = IF Len(call.cmd) > 1
                                                THEN get_subcommand_help_flags(call.config)
                                                ELSE get_help_flags(call.config)]
    /\ AppFrame

\* fetch_help: one round of the loop over the templates
TryHelpPattern ==
    /\ call.fn = "fetch_help"
    /\ call.at = "flags"
    /\ call.i <= Len(call.help_flags)
    /\ LET parts == expand_pattern(call.cmd, call.help_flags[call.i])
       IN  IF parts = <<>>
           THEN call' = [call EXCEPT !.i = @ + 1]
           ELSE \E out \in ChildOutputs :
                  LET output == try_help_pattern(out)
                      ran == [call EXCEPT !.log = Append(@, Ran(call.i, parts, out))]
                  IN  call' = IF IsSome(output) /\ ~trim_is_empty(Unwrap(output))
                              THEN Returned(ran, output)
                              ELSE [ran EXCEPT !.i = @ + 1]
    /\ AppFrame

\* try_man_page once man has run: Some(text) returns, "again" goes on to the
\* second attempt
ManResult(c, out, may_retry) ==
    IF ~out.spawned THEN Returned(c, None)
    ELSE IF out.success
    THEN LET output == strip_man_formatting(out.stdout)
         IN  Returned(c, IF trim_is_empty(output) THEN None ELSE Some(output))
    ELSE IF may_retry THEN [c EXCEPT !.at = "man_again"]
    ELSE Returned(c, None)

\* a fetch_help that may fall back to the manual page before the templates
\* are exhausted
TryManPage_early ==
    /\ call.fn = "fetch_help"
    /\ call.at = "flags"
    /\ \E out \in ManOutputs :
         LET argv == <<<<"m","a","n">>, JoinWith(call.cmd, <<"-">>)>>
             ran == [call EXCEPT !.log = Append(@, Ran(0, argv, out))]
         IN  call' = ManResult(ran, out, Len(call.cmd) = 1)
    /\ AppFrame

\* fetch_help after the loop: try_man_page runs man on the joined path
TryManPage ==
    /\ call.fn = "fetch_help"
    /\ call.at = "flags"
    /\ call.i > Len(call.help_flags)
    /\ \E out \in ManOutputs :
         LET argv == <<<<"m","a","n">>, JoinWith(call.cmd, <<"-">>)>>
             ran == [call EXCEPT !.log = Append(@, Ran(0, argv, out))]
         IN  call' = ManResult(ran, out, Len(call.cmd) = 1)
    /\ AppFrame

\* try_man_page: the second attempt for a single command
TryManPageAgain ==
    /\ call.fn = "fetch_help"
    /\ call.at = "man_again"
    /\ \E out \in ManOutputs :
         LET argv == <<<<"m","a","n">>, call.cmd[1]>>
             ran == [call EXCEPT !.log = Append(@, Ran(0, argv, out))]
         IN  call' = ManResult(ran, out, FALSE)
    /\ AppFrame

\* fetch_help_with_invoke: the expansion, the child process and the
\* selection of its output
FetchHelpWithInvoke ==
    /\ call.fn = "fetch_help_with_invoke"
    /\ call.at = "entry"
    /\ LET parts == split_whitespace(
                        ReplaceToken(ReplaceToken(call.invoke_template, "{base}",
                                                  call.base_cmd),
                                     "{name}", call.item_name))
       IN  IF parts = <<>>
           THEN call' = Returned(call, None)
           ELSE \E out \in ChildOutputs :
                  call' = Returned([call EXCEPT !.log = Append(@, Ran(1, parts, out))],
                                   invoke_output(out))
    /\ AppFrame

FetchNext ==
    \/ FetchHelpWithInvoke
    \/ FetchEntry
    \/ TryHelpPattern
    \/ TryManPage
    \/ TryManPageAgain

FetchSpec == FetchInit /\ [][FetchNext]_vars

\* the output of a template run is accepted
Accepted(out) ==
    IsSome(try_help_pattern(out)) /\ ~trim_is_empty(Unwrap(try_help_pattern(out)))

\* the text a run of man yields: the de-formatted stdout of a successful
\* run, when it is not blank
ManText(out) ==
    IF out.spawned /\ out.success /\ ~trim_is_empty(strip_man_formatting(out.stdout))
    THEN Some(strip_man_formatting(out.stdout))
    ELSE None

SelectionRule(out) ==
    CASE ~trim_is_empty(out.stdout) -> Some(out.stdout)
      [] trim_is_empty(out.stdout) /\ out.success /\ ~trim_is_empty(out.stderr) ->
             Some(out.stderr)
      [] trim_is_empty(out.stdout) /\ ~out.success /\ ~trim_is_empty(out.stderr)
             /\ looks_like_help(out.stderr) -> Some(out.stderr)
      [] OTHER -> None

\* C22: whatever a child that has run left on stdout and stderr and whatever
\* its exit status, fetch_help returns at once with the text the rule
\* selects, and goes on to the next template when the rule selects nothing;
\* fetch_help_with_invoke returns the text the same rule selects and fails
\* when it selects nothing.
C22_OutputSelection ==
    [][/\ TryHelpPattern =>
              \A k \in (Len(call.log) + 1)..Len(call'.log) :
                  LET out == call'.log[k].out
                  IN  out.spawned =>
                        IF IsSome(SelectionRule(out))
                        THEN call'.at = "done" /\ call'.result = SelectionRule(out)
                        ELSE call'.at = "flags" /\ call'.i = call.i + 1
       /\ FetchHelpWithInvoke =>
              \A k \in 1..Len(call'.log) :
                  LET out == call'.log[k].out
                  IN  out.spawned =>
                        call'.at = "done" /\ call'.result = SelectionRule(out)]_vars

\* a template's child failed with blank stdout and a usage text on stderr:
\* the call returned that text
C22_Witness ==
    /\ call.fn = "fetch_help"
    /\ call.at = "done"
    /\ Len(call.log) = 1
    /\ call.log[1].out = ChildOutput(<<" ", "\n">>, <<"U", "s", "a", "g", "e", ":">>, FALSE)
    /\ call.result = Some(<<"U", "s", "a", "g", "e", ":">>)

(***************************************************************************)
(* parser.rs: parse_subcommands step by step                               *)
(***************************************************************************)
\* the longest help text given to the parser, in lines
MaxLines == 4

\* the lines of the help texts: section headers of the default patterns,
\* entries (the same name with two descriptions, a second name after a
\* single space, a flag), a blank line, and a lower-case header that opens a
\* section for the third default pattern and for both fallbacks
ParseLines ==
    {<<"C","o","m","m","a","n","d","s",":">>,
     <<"O","p","t","i","o","n","s",":">>,
     <<" "," "," ","a"," "," ","x">>,
     <<" "," "," ","a"," "," ","y">>,
     <<" "," ","b"," ","z">>,
     <<" "," ","-","f"," "," ","w">>,
     <<>>,
     <<"x"," ","c","o","m","m","a","n","d","s">>}

ParseTexts == UNION {[1..n -> ParseLines] : n \in 1..MaxLines}

\* the pattern lists of the configurations: the defaults, and the user's
\* pair before the first default pair
ParseConfigs == {subcommand_patterns, <<4, 1>>}

\* a call of parse_subcommands: its arguments, the layer it is in, the index
\* of the pattern and of the line, the state of the loop, and the value
\* returned; matches lists what was captured on the way, outputs what the
\* layers that have run gave
ParseCall(help_text, patterns) ==
    [fn |-> "parse_subcommands", help_text |-> help_text, patterns |-> patterns,
     at |-> "configured", p |-> 1, i |-> 1, st |-> ScanState(FALSE, 0, <<>>, None),
     matches |-> <<>>, outputs |-> <<>>, result |-> <<>>]

ParseInit ==
    /\ AppAtRest
    /\ \E t \in ParseTexts, c \in ParseConfigs : call = ParseCall(t, c)

\* what a line step adds to the list of captures
Matched(c, st) ==
    IF IsSome(st.hit)
    THEN Append(c.matches, [layer |-> c.at, p |-> c.p, i |-> c.i,
                            name |-> Unwrap(st.hit).name,
                            description |-> Unwrap(st.hit).description])
    ELSE c.matches

LineDone(c, st) == [c EXCEPT !.st = st, !.i = @ + 1, !.matches = Matched(c, st)]

LayerDone(c) == [c EXCEPT !.outputs = Append(@, [layer |-> c.at, subs |-> c.st.subs])]

\* parse_subcommands: one line of the inner loop
ParseConfiguredLine ==
    /\ call.fn = "parse_subcommands"
    /\ call.at = "configured"
    /\ call.p <= Len(call.patterns)
    /\ call.i <= Len(call.help_text)
    /\ call' = LineDone(call, ConfiguredLine(call.patterns[call.p],
                                             call.help_text[call.i], call.st))
    /\ AppFrame

\* parse_subcommands: the next round of the outer loop
ParseNextPattern ==
    /\ call.fn = "parse_subcommands"
    /\ call.at = "configured"
    /\ call.p <= Len(call.patterns)
    /\ call.i > Len(call.help_text)
    /\ call' = [call EXCEPT !.p = @ + 1, !.i = 1,
                            !.st = ScanState(FALSE, 0, call.st.subs, None)]
    /\ AppFrame

\* parse_subcommands running parse_git_style whatever the patterns gave
ParseConfiguredEnd_always_git ==
    /\ call.fn = "parse_subcommands"
    /\ call.at = "configured"
    /\ call.p > Len(call.patterns)
    /\ call' = [LayerDone(call) EXCEPT !.at = "git", !.i = 1,
                                       !.st = GitState(FALSE, FALSE, call.st.subs, None)]
    /\ AppFrame

\* parse_subcommands: if subcommands.is_empty() { parse_git_style }
ParseConfiguredEnd ==
    /\ call.fn = "parse_subcommands"
    /\ call.at = "configured"
    /\ call.p > Len(call.patterns)
    /\ call' = IF call.st.subs = <<>>
               THEN [LayerDone(call) EXCEPT !.at = "git", !.i = 1,
                                            !.st = GitState(FALSE, FALSE, <<>>, None)]
               ELSE [LayerDone(call) EXCEPT !.at = "done", !.result = call.st.subs]
    /\ AppFrame

\* parse_git_style: one line of the loop
ParseGitLine ==
    /\ call.fn = "parse_subcommands"
    /\ call.at = "git"
    /\ call.i <= Len(call.help_text)
    /\ call' = LineDone(call, GitLine(call.help_text[call.i], call.st))
    /\ AppFrame

\* parse_subcommands: if subcommands.is_empty() { parse_aggressive }
ParseGitEnd ==
    /\ call.fn = "parse_subcommands"
    /\ call.at = "git"
    /\ call.i > Len(call.help_text)
    /\ call' = IF call.st.subs = <<>>
               THEN [LayerDone(call) EXCEPT !.at = "aggressive", !.i = 1,
                                            !.st = AggressiveState(FALSE, <<>>, None)]
               ELSE [LayerDone(call) EXCEPT !.at = "done", !.result = call.st.subs]
    /\ AppFrame

\* parse_aggressive: one line of the loop
ParseAggressiveLine ==
    /\ call.fn = "parse_subcommands"
    /\ call.at = "aggressive"
    /\ call.i <= Len(call.help_text)
    /\ call' = LineDone(call, AggressiveLine(call.help_text[call.i], call.st))
    /\ AppFrame

\* parse_subcommands returns what parse_aggressive gave
ParseAggressiveEnd ==
    /\ call.fn = "parse_subcommands"
    /\ call.at = "aggressive"
    /\ call.i > Len(call.help_text)
    /\ call' = [LayerDone(call) EXCEPT !.at = "done", !.result = call.st.subs]
    /\ AppFrame

ParseNext ==
    \/ ParseConfiguredLine
    \/ ParseNextPattern
    \/ ParseConfiguredEnd
    \/ ParseGitLine
    \/ ParseGitEnd
    \/ ParseAggressiveLine
    \/ ParseAggressiveEnd

ParseSpec == ParseInit /\ [][ParseNext]_vars

(***************************************************************************)
(* Claims about the parser                                                 *)
(***************************************************************************)
Parsing == call.fn = "parse_subcommands"

ParseDone == Parsing /\ call.at = "done"

\* the list the call holds: the one being built, then the one returned
Held == IF call.at = "done" THEN call.result ELSE call.st.subs

Names(subs) == [k \in 1..Len(subs) |-> subs[k].name]

\* a line of the text gives pattern p a name that begins with '-'
FlagCaptured(p, line) ==
    /\ IsSome(entry_captures(p, line))
    /\ starts_with(Unwrap(entry_captures(p, line)).name, <<"-">>)

\* C23: for every help text and every configured pattern list, no entry
\* that parse builds or returns has a name beginning with '-', whichever of
\* the three layers produced it.
C23_NoFlagNames ==
    Parsing =>
        /\ \A k \in 1..Len(Held) : ~starts_with(Held[k].name, <<"-">>)
        /\ \A o \in 1..Len(call.outputs) :
             \A k \in 1..Len(call.outputs[o].subs) :
                ~starts_with(call.outputs[o].subs[k].name, <<"-">>)

\* C23 witness: the user's pattern captured "-f" from a line inside the
\* Commands section and the call returned the entry after it alone
C23_Witness ==
    /\ ParseDone
    /\ call.patterns = <<4, 1>>
    /\ Len(call.help_text) = 3
    /\ section_is_match(4, call.help_text[1])
    /\ FlagCaptured(4, call.help_text[2])
    /\ Names(call.result) = <<<<"a">>>>

\* m is the first capture of its name
FirstOfName(m) == \A n \in 1..(m - 1) : call.matches[n].name # call.matches[m].name

\* C24: the names parse returns are pairwise distinct, and when a name is
\* captured more than once (in one section, in several, or by several
\* pattern pairs) the entry kept is the first capture with its description.
C24_DistinctFirstKept ==
    Parsing =>
        /\ \A k, l \in 1..Len(Held) : k # l => Held[k].name # Held[l].name
        /\ \A k \in 1..Len(Held) :
             \E m \in 1..Len(call.matches) :
                /\ FirstOfName(m)
                /\ call.matches[m].name = Held[k].name
                /\ Held[k].description = Some(call.matches[m].description)
        /\ \A m \in 1..Len(call.matches) : HasName(Held, call.matches[m].name)

\* C24 witness: one name captured by both pattern pairs, on two lines with
\* different descriptions, and returned once
C24_Witness ==
    /\ ParseDone
    /\ Len(call.result) = 1
    /\ \E m, n \in 1..Len(call.matches) :
          /\ m < n
          /\ call.matches[m].name = call.matches[n].name
          /\ call.matches[m].i # call.matches[n].i
          /\ call.matches[m].description # call.matches[n].description
    /\ \E m, n \in 1..Len(call.matches) :
          /\ call.matches[m].name = call.matches[n].name
          /\ call.matches[m].p # call.matches[n].p

\* C25: the result of parse is exactly the output of the first of the
\* layers configured patterns, git-style, aggressive that yields an entry;
\* a later layer is not run and adds nothing; the result is empty only if
\* all three layers are empty.
C25_FirstLayerWithEntries ==
    ParseDone =>
        LET configured == ScanPatterns(call.patterns, call.help_text, <<>>)
            git == parse_git_style(call.help_text)
            aggressive == parse_aggressive(call.help_text)
            ran == [o \in 1..Len(call.outputs) |-> call.outputs[o].layer]
        IN  /\ configured # <<>> =>
                call.result = configured /\ ran = <<"configured">>
            /\ (configured = <<>> /\ git # <<>>) =>
                call.result = git /\ ran = <<"configured", "git">>
            /\ (configured = <<>> /\ git = <<>>) =>
                /\ call.result = aggressive
                /\ ran = <<"configured", "git", "aggressive">>
            /\ call.result = <<>> =>
                configured = <<>> /\ git = <<>> /\ aggressive = <<>>

\* C25 witness: the configured patterns gave an entry and the call returned
\* it after that one layer, although the aggressive layer would have given
\* another list for the same text
C25_Witness ==
    /\ ParseDone
    /\ call.result # <<>>
    /\ Len(call.outputs) = 1
    /\ parse_aggressive(call.help_text) # <<>>
    /\ parse_aggressive(call.help_text) # call.result

\* the git-style layer delivered the result
C25_GitDelivered ==
    ParseDone /\ call.result # <<>> /\ Len(call.outputs) = 2

\* the aggressive layer delivered the result
C25_AggressiveDelivered ==
    ParseDone /\ call.result # <<>> /\ Len(call.outputs) = 3

\* the line of the help text an entry of the result was taken from
DefiningLine(k) ==
    LET m == CHOOSE m \in 1..Len(call.matches) :
                 FirstOfName(m) /\ call.matches[m].name = call.result[k].name
    IN  call.matches[m].i

\* C26: the entries parse returns are in source order: of two returned
\* entries the one whose defining line is earlier in the text comes first,
\* for every configuration.
C26_SourceOrder ==
    ParseDone =>
        \A k, l \in 1..Len(call.result) :
            k < l => DefiningLine(k) < DefiningLine(l)

(***************************************************************************)
(* fetcher.rs: strip_man_formatting step by step                           *)
(***************************************************************************)
\* the longest text given to strip_man_formatting, in characters
MaxText == 4

\* the characters of the texts: the backspace, the escape, the bracket that
\* opens a CSI sequence, a letter (which ends one) and a digit
StripChars == {"BS", "ESC", "[", "N", "1"}

StripTexts == UNION {[1..n -> StripChars] : n \in 0..MaxText}

\* a call of strip_man_formatting: the text, the position of chars.next(),
\* the buffer result; pass counts the applications (the second one is given
\* what the first returned, kept in first; original is the text of the first)
StripCall(text, pass, original, first) ==
    [fn |-> "strip_man_formatting", text |-> text, i |-> 1, result |-> <<>>,
     at |-> "loop", pass |-> pass, original |-> original, first |-> first]

StripInit ==
    /\ AppAtRest
    /\ \E t \in StripTexts : call = StripCall(t, 1, t, <<>>)

Stripping == call.fn = "strip_man_formatting"

AtChar == Stripping /\ call.at = "loop" /\ call.i <= Len(call.text)

\* chars.peek() == Some(&'[')
PeekBracket == call.i < Len(call.text) /\ call.text[call.i + 1] = "["

\* c == '\x08': result.pop()
StripBackspace ==
    /\ AtChar
    /\ call.text[call.i] = "BS"
    /\ call' = [call EXCEPT !.i = @ + 1,
                            !.result = IF @ = <<>> THEN @
                                       ELSE SubSeq(@, 1, Len(@) - 1)]
    /\ AppFrame

\* c == '\x1b' before '[': the sequence is skipped up to its first letter
StripCsi ==
    /\ AtChar
    /\ call.text[call.i] = "ESC"
    /\ PeekBracket
    /\ call' = [call EXCEPT !.i = CsiEnd(call.text, call.i + 2)]
    /\ AppFrame

\* the escape before anything else, pushed to the buffer
StripEscape_emit ==
    /\ AtChar
    /\ call.text[call.i] = "ESC"
    /\ ~PeekBracket
    /\ call' = [call EXCEPT !.i = @ + 1, !.result = Append(@, "ESC")]
    /\ AppFrame

\* c == '\x1b' before anything else: the branch has no else, nothing is pushed
StripEscape ==
    /\ AtChar
    /\ call.text[call.i] = "ESC"
    /\ ~PeekBracket
    /\ call' = [call EXCEPT !.i = @ + 1]
    /\ AppFrame

\* any other c: result.push(c)
StripPush ==
    /\ AtChar
    /\ call.text[call.i] \notin {"BS", "ESC"}
    /\ call' = [call EXCEPT !.i = @ + 1, !.result = Append(@, call.text[call.i])]
    /\ AppFrame

\* the loop has ended: result is returned
StripReturn ==
    /\ Stripping
    /\ call.at = "loop"
    /\ call.i > Len(call.text)
    /\ call' = [call EXCEPT !.at = "done"]
    /\ AppFrame

\* strip_man_formatting applied to what it returned
StripAgain ==
    /\ Stripping
    /\ call.at = "done"
    /\ call.pass = 1
    /\ call' = StripCall(call.result, 2, call.original, call.result)
    /\ AppFrame

StripNext ==
    \/ StripBackspace
    \/ StripCsi
    \/ StripEscape
    \/ StripPush
    \/ StripReturn
    \/ StripAgain

StripSpec == StripInit /\ [][StripNext]_vars

(***************************************************************************)
(* Claims about strip_man_formatting                                       *)
(***************************************************************************)
\* the loop handled the character at position i of the text
StripStep == AtChar /\ call' # call

\* C27: de-formatting emits verbatim every character that is neither a
\* backspace nor part of a CSI sequence (an escape followed by '[', up to
\* and including the first ASCII letter); an escape not followed by '[' is
\* emitted unchanged; a backspace removes exactly the one character emitted
\* last, nothing when the buffer is empty.
C27_VerbatimOutsideFormatting ==
    [][StripStep =>
        LET c == call.text[call.i]
            csi == c = "ESC" /\ PeekBracket
        IN  /\ (c # "BS" /\ ~csi) =>
                call'.result = Append(call.result, c) /\ call'.i = call.i + 1
            /\ csi =>
                /\ call'.result = call.result
                /\ call'.i = CsiEnd(call.text, call.i + 2)
            /\ (c = "BS" /\ call.result # <<>>) =>
                call'.result = SubSeq(call.result, 1, Len(call.result) - 1)
            /\ (c = "BS" /\ call.result = <<>>) => call'.result = <<>>]_vars

FormattingFree(text) == \A k \in 1..Len(text) : text[k] \notin {"BS", "ESC"}

\* C28: de-formatting is the identity on a text without backspace and
\* escape, and applying it twice gives the same text as applying it once,
\* for every input.
C28_IdentityAndIdempotent ==
    (Stripping /\ call.at = "done") =>
        /\ (call.pass = 1 /\ FormattingFree(call.text)) => call.result = call.text
        /\ call.pass = 2 => call.result = call.first

\* C28 witness: the second application has returned for a text that held a
\* backspace and an escape and lost characters in the first
C28_Witness ==
    /\ Stripping
    /\ call.at = "done"
    /\ call.pass = 2
    /\ \E k \in 1..Len(call.original) : call.original[k] = "BS"
    /\ \E k \in 1..Len(call.original) : call.original[k] = "ESC"
    /\ call.result # <<>>
    /\ call.result # call.original

\* the call returns what strip_man_formatting computes in one go
StripAgrees ==
    (Stripping /\ call.at = "done") => call.result = strip_man_formatting(call.text)

(***************************************************************************)
(* finder.rs, switcher.rs: the two pickers under typing and moving         *)
(***************************************************************************)
\* the longest query typed into a picker, in characters (two terms need three)
MaxPick == 3

Item(name) == Subcommand(name, None, None, None)

\* the item lists of the finder: none, one, five of which a query can match
\* all, some in another order than the list's, or none, and three that
\* differ in description and label
FinderItemLists ==
    {<<>>,
     <<Item(<<"b","a">>)>>,
     <<Item(<<"b","a">>), Item(<<"a","b">>), Item(<<"b">>), Item(<<"a">>),
       Item(<<"b","b">>)>>,
     <<Subcommand(<<"a">>, Some(<<"b">>), None, None),
       Subcommand(<<"a">>, None, Some(<<"b">>), None),
       Item(<<"a">>)>>}

\* the histories of the switcher
SwitcherHistories ==
    {<<>>, << <<"b","a">>, <<"a","b">>, <<"b">> >>}

\* the characters typed into a query
PickChars == {"a", "b", " "}

\* the heights of the terminal at a render
AreaHeights == {4, 24}

\* the distances given to move_up_by and move_down_by: none, one, and the
\* half and the whole of the visible height as handle_key gives them
MoveDistances(f) == {0, 1, f.visible_height \div 2, f.visible_height}

\* a picker examined on its own: the Finder or the CommandSwitcher, the
\* operation applied last, the selection before it, and what a lookup gave
PickCall(fn, picker, op, before, found) ==
    [fn |-> fn, picker |-> picker, op |-> op, before |-> before, found |-> found]

PickInit ==
    /\ AppAtRest
    /\ \/ \E items \in FinderItemLists :
             call = PickCall("Finder", Finder_new(items), "new", 0, None)
       \/ \E cmds \in SwitcherHistories :
             call = PickCall("CommandSwitcher", CommandSwitcher_new(cmds), "new", 0, None)

OnFinder == call.fn = "Finder"

OnSwitcher == call.fn = "CommandSwitcher"

Applied(op, picker) == PickCall(call.fn, picker, op, call.picker.selected, None)

FinderPushChar ==
    /\ OnFinder
    /\ Len(call.picker.query) < MaxPick
    /\ \E c \in PickChars : call' = Applied("push_char", Finder_push_char(call.picker, c))
    /\ AppFrame

FinderPopChar ==
    /\ OnFinder
    /\ call' = Applied("pop_char", Finder_pop_char(call.picker))
    /\ AppFrame

FinderMoveUp ==
    /\ OnFinder
    /\ call' = Applied("move_up", Finder_move_up(call.picker))
    /\ AppFrame

FinderMoveDown ==
    /\ OnFinder
    /\ call' = Applied("move_down", Finder_move_down(call.picker))
    /\ AppFrame

FinderMoveUpBy ==
    /\ OnFinder
    /\ \E n \in MoveDistances(call.picker) :
          call' = Applied("move_up_by", Finder_move_up_by(call.picker, n))
    /\ AppFrame

FinderMoveDownBy ==
    /\ OnFinder
    /\ \E n \in MoveDistances(call.picker) :
          call' = Applied("move_down_by", Finder_move_down_by(call.picker, n))
    /\ AppFrame

FinderRender ==
    /\ OnFinder
    /\ \E h \in AreaHeights : call' = Applied("render", Finder_render(call.picker, h))
    /\ AppFrame

FinderSelectedItem ==
    /\ OnFinder
    /\ call' = [Applied("selected_item", call.picker) EXCEPT
                    !.found = selected_item(call.picker)]
    /\ AppFrame

SwitcherPushChar ==
    /\ OnSwitcher
    /\ Len(call.picker.query) < MaxPick
    /\ \E c \in PickChars : call' = Applied("push_char", Switcher_push_char(call.picker, c))
    /\ AppFrame

SwitcherPopChar ==
    /\ OnSwitcher
    /\ call' = Applied("pop_char", Switcher_pop_char(call.picker))
    /\ AppFrame

SwitcherMoveUp ==
    /\ OnSwitcher
    /\ call' = Applied("move_up", Switcher_move_up(call.picker))
    /\ AppFrame

SwitcherMoveDown ==
    /\ OnSwitcher
    /\ call' = Applied("move_down", Switcher_move_down(call.picker))
    /\ AppFrame

SwitcherSelectedCommand ==
    /\ OnSwitcher
    /\ call' = [Applied("selected_command", call.picker) EXCEPT
                    !.found = selected_command(call.picker)]
    /\ AppFrame

PickNext ==
    \/ FinderPushChar
    \/ FinderPopChar
    \/ FinderMoveUp
    \/ FinderMoveDown
    \/ FinderMoveUpBy
    \/ FinderMoveDownBy
    \/ FinderRender
    \/ FinderSelectedItem
    \/ SwitcherPushChar
    \/ SwitcherPopChar
    \/ SwitcherMoveUp
    \/ SwitcherMoveDown
    \/ SwitcherSelectedCommand

PickSpec == PickInit /\ [][PickNext]_vars

(***************************************************************************)
(* Claims about the pickers                                                *)
(***************************************************************************)
Picking == OnFinder \/ OnSwitcher

SortedByScore(filtered) ==
    \A k \in 1..(Len(filtered) - 1) : filtered[k][1] >= filtered[k + 1][1]

\* C29 as stated: in every reachable state of the Finder and of the
\* Switcher, queries that match nothing included, filtered is sorted by
\* score descending and 0 <= selected_index < len(filtered).
C29_SortedAndSelectedInRange ==
    Picking =>
        /\ SortedByScore(call.picker.filtered)
        /\ 0 <= call.picker.selected
        /\ call.picker.selected < Len(call.picker.filtered)

\* C29 amended: in every reachable state of the Finder and of the Switcher
\* filtered is sorted by score descending; the selected index is within
\* [0, len(filtered)) when filtered has an entry and is 0 when it has none.
C29_SortedAndSelectedInRangeOrZero ==
    Picking =>
        /\ SortedByScore(call.picker.filtered)
        /\ 0 <= call.picker.selected
        /\ call.picker.filtered # <<>> =>
               call.picker.selected < Len(call.picker.filtered)
        /\ call.picker.filtered = <<>> => call.picker.selected = 0

\* C29 witness: a typed query put a later item before an earlier one with a
\* lower score, and the selection was moved to the last entry
C29_Witness ==
    /\ OnFinder
    /\ call.picker.query # <<>>
    /\ Len(call.picker.filtered) >= 2
    /\ \E k, l \in 1..Len(call.picker.filtered) :
          /\ k < l
          /\ call.picker.filtered[k][1] > call.picker.filtered[l][1]
          /\ call.picker.filtered[k][2] > call.picker.filtered[l][2]
    /\ call.picker.selected = Len(call.picker.filtered) - 1

UpMoves == {"move_up", "move_up_by"}

DownMoves == {"move_down", "move_down_by"}

Lookups == {"selected_item", "selected_command"}

\* C30: selection moves saturate: move_up and move_up_by never take the
\* selected index below 0, move_down and move_down_by never above
\* len(filtered)-1 (0 when filtered is empty), a move at a boundary leaves
\* the index unchanged, and no move or lookup of the selected item indexes
\* outside the filtered list or the items.
C30_MovesSaturate ==
    [][(Picking /\ call'.op \in UpMoves \cup DownMoves \cup Lookups) =>
        LET f == call.picker
            g == call'.picker
            max_idx == IF f.filtered = <<>> THEN 0 ELSE Len(f.filtered) - 1
            n == IF OnFinder THEN Len(f.items) ELSE Len(f.history)
        IN  /\ g.filtered = f.filtered
            /\ 0 <= g.selected
            /\ g.selected <= max_idx
            /\ call'.op \in UpMoves => g.selected <= f.selected
            /\ call'.op \in DownMoves => g.selected >= f.selected
            /\ (call'.op \in UpMoves /\ f.selected = 0) => g.selected = 0
            /\ (call'.op \in DownMoves /\ f.selected = max_idx) => g.selected = max_idx
            /\ call'.op \in {"move_up", "move_down"} =>
                   g.selected \in {f.selected - 1, f.selected, f.selected + 1}
            /\ call'.op \in Lookups =>
                   /\ g.selected = f.selected
                   /\ \A k \in 1..Len(f.filtered) : f.filtered[k][2] < n
                   /\ f.filtered # <<>> =>
                        call'.found = Some(IF OnFinder
                                           THEN f.items[f.filtered[f.selected + 1][2] + 1]
                                           ELSE f.history[f.filtered[f.selected + 1][2] + 1])
                   /\ (f.filtered = <<>> /\ OnFinder) => call'.found = None]_vars

\* C30 witness: move_down_by from the third of five entries, by more than
\* the two that are left, stopped at the last
C30_Witness ==
    /\ OnFinder
    /\ call.op = "move_down_by"
    /\ Len(call.picker.filtered) = 5
    /\ call.before = 2
    /\ call.picker.selected = 4
    /\ call.picker.visible_height \div 2 > 2

\* the item at position i (from 1) is in the filtered list, once
Listed(f, i) ==
    /\ \E k \in 1..Len(f.filtered) : f.filtered[k][2] = i - 1
    /\ \A k, l \in 1..Len(f.filtered) :
           (f.filtered[k][2] = i - 1 /\ f.filtered[l][2] = i - 1) => k = l

\* every term of the query matches the searchable text of the item
EveryTermMatches(item, terms) ==
    \A t \in 1..Len(terms) : IsSome(fuzzy_match(Searchable(item), terms[t]))

\* C31: finder filtering has AND semantics over the whitespace-separated
\* terms: after a query change with at least one term an item is in the
\* filtered list iff every term matches its searchable text (label, name,
\* description); an empty or whitespace-only query lists every item in
\* insertion order with equal score; every query change resets the selected
\* index to 0.
C31_AndSemantics ==
    [][(OnFinder /\ call'.op \in {"push_char", "pop_char"}) =>
        LET g == call'.picker
            terms == split_whitespace(g.query)
        IN  /\ g.items = call.picker.items
            /\ g.selected = 0
            /\ terms # <<>> =>
                 /\ \A i \in 1..Len(g.items) :
                       Listed(g, i) <=> EveryTermMatches(g.items[i], terms)
                 /\ \A k \in 1..Len(g.filtered) : g.filtered[k][2] < Len(g.items)
            /\ terms = <<>> =>
                 /\ Len(g.filtered) = Len(g.items)
                 /\ \A k \in 1..Len(g.filtered) :
                       /\ g.filtered[k][2] = k - 1
                       /\ g.filtered[k][1] = g.filtered[1][1]]_vars

\* C31 witness: a second term was typed after the selection had been moved;
\* the list lost an item that matches one term only, kept one that matches
\* the other term in its description, and the selection is 0 again
C31_Witness ==
    /\ OnFinder
    /\ call.op = "push_char"
    /\ Len(split_whitespace(call.picker.query)) = 2
    /\ call.before > 0
    /\ call.picker.selected = 0
    /\ Len(call.picker.filtered) < Len(call.picker.items)
    /\ \E k \in 1..Len(call.picker.filtered) :
          IsSome(call.picker.items[call.picker.filtered[k][2] + 1].description)

(***************************************************************************)
(* app.rs: the search line                                                 *)
(***************************************************************************)
\* the keys of Paging that open the search line and walk the matches
SearchPagingKey == PagingKeyOf(SearchKeys)

SearchNext ==
    \/ Tick
    \/ IdleTick
    \/ SearchPagingKey
    \/ SearchingKey
    \/ WorkerSend

SearchSpec == Init /\ [][SearchNext]_vars

\* C32: in Searching, Esc discards the query in progress: after entering
\* Searching, typing any characters and pressing Esc, the state is Paging
\* and the search state of the pager (query, match lines, current match
\* index) is what it was when Searching was entered; Enter commits the typed
\* query to the pager and returns to Paging.
C32_EscDiscardsQuery ==
    [][/\ (state = "Searching" /\ last'.op = "search_esc") =>
             /\ state' = "Paging"
             /\ search_input' = <<>>
             /\ SearchState(pager') = last'.pre
       /\ (state = "Searching" /\ last'.op = "search_enter") =>
             /\ state' = "Paging"
             /\ pager' = Pager_set_search(pager, search_input)]_vars

(***************************************************************************)
(* app.rs: the overlays with all their keys                                *)
(***************************************************************************)
\* the keys pressed in Finding: those that close, select, move by one and
\* by half a page, type and erase
OverlayFinderKeys ==
    FinderKeys \cup {Key(c, {}) : c \in TypeChars \cup {"Backspace"}}
               \cup {Key("d", {"CONTROL"}), Key("u", {"CONTROL"})}

\* the keys pressed in Switching: those that close, select, type, erase and
\* move
OverlaySwitcherKeys == SwitcherKeys \cup {Key(c, {}) : c \in {"Up", "Down"}}

\* the keys pressed in Help: the four that close it and another
OverlayHelpKeys == {Key(c, {}) : c \in {"Esc", "q", "?", "Enter", "j"}}

OverlayFindingKey == FindingKeyOf(OverlayFinderKeys)

OverlaySwitchingKey == SwitchingKeyOf(OverlaySwitcherKeys)

OverlayHelpKey == HelpKeyOf(OverlayHelpKeys, TRUE)

OverlayNext ==
    \/ Tick
    \/ IdleTick
    \/ PagingKey
    \/ OverlayFindingKey
    \/ DrillKey
    \/ OverlaySwitchingKey
    \/ SwitchKey
    \/ OverlayHelpKey
    \/ WorkerSend
    \/ OrphanFinish

OverlaySpec == Init /\ [][OverlayNext]_vars

OverlayStates == {"Finding", "Switching", "Help"}

\* what lies under an overlay
Underlying == <<pager, current_command, history, command_history, subcommands>>

\* the key selected an entry of the overlay and its fetch succeeded
SelectedAndFetched == last'.op \in Drills \cup {"switch"} /\ last'.ok

C33_TypedInFinder ==
    /\ state = "Finding"
    /\ IsSome(finder)
    /\ Unwrap(finder).query # <<>>
    /\ history # <<>>
    /\ pager.scroll > 0

(***************************************************************************)
(* main.rs: main and run_app around the event loop                         *)
(***************************************************************************)
\* a call of main: the statement it is at, the two modes of the terminal,
\* whether raw mode was ever enabled, the result of run_app, and how the
\* process ended ("none" while it runs)
MainCall(at, raw_mode, alternate_screen, raw_enabled, result, exit) ==
    [fn |-> "main", at |-> at, raw_mode |-> raw_mode,
     alternate_screen |-> alternate_screen, raw_enabled |-> raw_enabled,
     result |-> result, exit |-> exit]

MainInit ==
    /\ AppAtRest
    /\ call = MainCall("enable_raw_mode", FALSE, FALSE, FALSE, "none", "none")

InMain(at) == call.fn = "main" /\ call.at = at

\* the ? operator on an Err: main returns it and the process ends
Propagated == [call EXCEPT !.at = "exited", !.exit = "error"]

\* enable_raw_mode()?
MainEnableRawMode ==
    /\ InMain("enable_raw_mode")
    /\ \E ok \in BOOLEAN :
          call' = IF ok
                  THEN [call EXCEPT !.at = "enter_alternate_screen",
                                    !.raw_mode = TRUE, !.raw_enabled = TRUE]
                  ELSE Propagated
    /\ AppFrame

\* execute!(stdout, EnterAlternateScreen)?
MainEnterAlternateScreen ==
    /\ InMain("enter_alternate_screen")
    /\ \E ok \in BOOLEAN :
          call' = IF ok
                  THEN [call EXCEPT !.at = "terminal_new", !.alternate_screen = TRUE]
                  ELSE Propagated
    /\ AppFrame

\* Terminal::new(backend)?
MainTerminalNew ==
    /\ InMain("terminal_new")
    /\ \E ok \in BOOLEAN :
          call' = IF ok THEN [call EXCEPT !.at = "run_app"] ELSE Propagated
    /\ AppFrame

\* run_app: App::new(command, config)? with the initial fetch
MainAppNew ==
    /\ InMain("run_app")
    /\ \E r \in FetchResults :
          IF r.ok
          THEN /\ call' = [call EXCEPT !.at = "run"]
               /\ state' = "Paging"
               /\ pager' = Pager_new(r.content)
               /\ finder' = None
               /\ switcher' = None
               /\ history' = <<>>
               /\ command_history' = <<InitCommand[1]>>
               /\ current_command' = InitCommand
               /\ subcommands' = ParseTable[r.content]
               /\ search_input' = <<>>
               /\ pending_g' = FALSE
               /\ should_quit' = FALSE
               /\ error_message' = None
               /\ content_source' = r.source
               /\ discovery_receiver' = Some(InitCommand[1])
               /\ chan' = ChanRunning
               /\ orphans' = 0
               /\ pc' = "draw"
               /\ last' = Last("none", TRUE, NoSnapshot, FALSE)
          ELSE /\ call' = [call EXCEPT !.at = "disable_raw_mode", !.result = "Err"]
               /\ AppFrame

\* App::run: the steps of the event loop
MainLoop ==
    /\ InMain("run")
    /\ \/ Tick
       \/ IdleTick
       \/ PagingKey
       \/ HelpKey
       \/ WorkerSend

\* App::run: the loop ends when should_quit is set
MainLoopReturn ==
    /\ InMain("run")
    /\ should_quit
    /\ pc = "draw"
    /\ call' = [call EXCEPT !.at = "disable_raw_mode", !.result = "Ok"]
    /\ AppFrame

\* App::run: terminal.draw(..)? or self.handle_events()? returns an Err
MainLoopError ==
    /\ InMain("run")
    /\ ~should_quit
    /\ call' = [call EXCEPT !.at = "disable_raw_mode", !.result = "Err"]
    /\ AppFrame

\* a panic inside run_app: no hook is installed and nothing catches it
MainPanic ==
    /\ InMain("run")
    /\ call' = [call EXCEPT !.at = "exited", !.exit = "panic"]
    /\ AppFrame

\* disable_raw_mode()?
MainDisableRawMode ==
    /\ InMain("disable_raw_mode")
    /\ \E ok \in BOOLEAN :
          call' = IF ok
                  THEN [call EXCEPT !.at = "leave_alternate_screen", !.raw_mode = FALSE]
                  ELSE Propagated
    /\ AppFrame

\* execute!(terminal.backend_mut(), LeaveAlternateScreen)?
MainLeaveAlternateScreen ==
    /\ InMain("leave_alternate_screen")
    /\ \E ok \in BOOLEAN :
          call' = IF ok
                  THEN [call EXCEPT !.at = "show_cursor", !.alternate_screen = FALSE]
                  ELSE Propagated
    /\ AppFrame

\* terminal.show_cursor()? and the end of main
MainShowCursor ==
    /\ InMain("show_cursor")
    /\ \E ok \in BOOLEAN :
          call' = IF ~ok THEN Propagated
                  ELSE [call EXCEPT !.at = "exited",
                                    !.exit = IF call.result = "Err" THEN "error" ELSE "ok"]
    /\ AppFrame

MainNext ==
    \/ MainEnableRawMode
    \/ MainEnterAlternateScreen
    \/ MainTerminalNew
    \/ MainAppNew
    \/ MainLoop
    \/ MainLoopReturn
    \/ MainLoopError
    \/ MainPanic
    \/ MainDisableRawMode
    \/ MainLeaveAlternateScreen
    \/ MainShowCursor

MainSpec == MainInit /\ [][MainNext]_vars

\* C34: on every exit path after raw mode has been enabled (clean quit,
\* failure of a later step of the terminal initialisation, failure of the
\* initial fetch, an error returned by the event loop, a panic) raw mode is
\* disabled and the alternate screen is left before the process exits.
C34_TerminalRestoredOnExit ==
    (InMain("exited") /\ call.raw_enabled) =>
        ~call.raw_mode /\ ~call.alternate_screen

\* the exits on which the terminal is restored: the clean quit, the failed
\* initial fetch and the error returned by the event loop
C34_RestoredAfterRunApp ==
    InMain("exited") /\ call.result # "none" /\ ~call.raw_mode /\ ~call.alternate_screen

(***************************************************************************)
(* app.rs: parse_see_also, line by line                                    *)
(***************************************************************************)
MaxSection == 4

\* the lines a manual page is made of here: the header, an indented line of
\* references, a non-indented one with the base command and another tool, an
\* indented sentence starting with a capital, a non-indented header, and a
\* capitalised line with a parenthesis
SeeAlsoLines ==
    { <<"S","E","E"," ","A","L","S","O">>,
      <<" "," ","a","b","-","a","(","1",")">>,
      <<"a","b","(","1",")",","," ","c","-","a","(","3",")",","," ","a","b","-","b","(","1",")">>,
      <<" "," ","A","b">>,
      <<"A","B">>,
      <<"A","b","(","1",")">> }

SeeAlsoContents ==
    UNION { [1..n -> SeeAlsoLines] : n \in 1..MaxSection }

SeeAlsoHeaders ==
    { <<"S","E","E"," ","A","L","S","O">>,
      <<"S","e","e"," ","A","l","s","o">>,
      <<"S","E","E"," "," ","A","L","S","O">> }

\* a call of parse_see_also(content, base_cmd): the line the loop is at, its
\* two locals, whether the loop left by its break, and the value returned
SeeAlsoCall(content, base_cmd, i, in_see_also, see_also_text, at, broke, result) ==
    [fn |-> "parse_see_also", content |-> content, base_cmd |-> base_cmd, i |-> i,
     in_see_also |-> in_see_also, see_also_text |-> see_also_text, at |-> at,
     broke |-> broke, result |-> result]

SeeAlsoInit ==
    /\ AppAtRest
    /\ \E content \in SeeAlsoContents :
          call = SeeAlsoCall(content, InitCommand[1], 1, FALSE, <<>>, "lines", FALSE, <<>>)

AtLine ==
    /\ call.fn = "parse_see_also"
    /\ call.at = "lines"
    /\ call.i <= Len(call.content)

\* the test of the break, on the trimmed line
EndsSection(line, trimmed) ==
    /\ trimmed # <<>>
    /\ ~starts_with(trimmed, <<" ">>)
    /\ IsUpper(trimmed[1])
    /\ ~contains(trimmed, <<"(">>)

\* if trimmed == "SEE ALSO" || .. { in_see_also = true; continue; }
SeeAlsoHeader ==
    /\ AtLine
    /\ Trim(call.content[call.i]) \in SeeAlsoHeaders
    /\ call' = [call EXCEPT !.in_see_also = TRUE, !.i = @ + 1]
    /\ AppFrame

\* a line before the header
SeeAlsoOutside ==
    /\ AtLine
    /\ Trim(call.content[call.i]) \notin SeeAlsoHeaders
    /\ ~call.in_see_also
    /\ call' = [call EXCEPT !.i = @ + 1]
    /\ AppFrame

\* if in_see_also { if .. { break; } .. }
SeeAlsoBreak ==
    /\ AtLine
    /\ Trim(call.content[call.i]) \notin SeeAlsoHeaders
    /\ call.in_see_also
    /\ EndsSection(call.content[call.i], Trim(call.content[call.i]))
    /\ call' = [call EXCEPT !.at = "extract", !.broke = TRUE]
    /\ AppFrame

\* see_also_text.push_str(line); see_also_text.push(' ');
SeeAlsoPush ==
    /\ AtLine
    /\ Trim(call.content[call.i]) \notin SeeAlsoHeaders
    /\ call.in_see_also
    /\ ~EndsSection(call.content[call.i], Trim(call.content[call.i]))
    /\ call' = [call EXCEPT !.see_also_text = @ \o call.content[call.i] \o <<" ">>,
                            !.i = @ + 1]
    /\ AppFrame

\* content.lines() is exhausted
SeeAlsoEnd ==
    /\ call.fn = "parse_see_also"
    /\ call.at = "lines"
    /\ call.i > Len(call.content)
    /\ call' = [call EXCEPT !.at = "extract"]
    /\ AppFrame

\* the early return on an empty text, else the captures and the filter
SeeAlsoExtract ==
    /\ call.fn = "parse_see_also"
    /\ call.at = "extract"
    /\ call' = [call EXCEPT
                   !.at = "done",
                   !.result = IF call.see_also_text = <<>> THEN <<>>
                              ELSE SeeAlsoItems(PageRefs(call.see_also_text, 1),
                                                call.base_cmd)]
    /\ AppFrame

SeeAlsoNext ==
    \/ SeeAlsoHeader
    \/ SeeAlsoOutside
    \/ SeeAlsoBreak
    \/ SeeAlsoPush
    \/ SeeAlsoEnd
    \/ SeeAlsoExtract

SeeAlsoSpec == SeeAlsoInit /\ [][SeeAlsoNext]_vars

SeeAlsoDone == call.fn = "parse_see_also" /\ call.at = "done"

\* the line by line run returns what parse_see_also returns
SeeAlsoAgrees ==
    SeeAlsoDone => call.result = parse_see_also(call.content, call.base_cmd)

\* C35: the section runs from the header to the next non-indented line that
\* starts with an uppercase letter and has no parenthesis: an indented line
\* never ends it, so every reference to a page of the base command on a line
\* before that non-indented header is returned; and only names starting with
\* "<base>-" are returned, never the base command itself.
C35_IndentedLineKeepsSection ==
    /\ (call.fn = "parse_see_also" /\ call.broke) =>
           ~starts_with(call.content[call.i], <<" ">>)
    /\ SeeAlsoDone =>
           \A k \in 1..Len(call.result) :
               /\ starts_with(call.result[k].name, call.base_cmd \o <<"-">>)
               /\ call.result[k].name # call.base_cmd

\* what holds of the code: the names returned are pages of the base command
C35_OnlyPagesOfBase ==
    SeeAlsoDone =>
        \A k \in 1..Len(call.result) :
            /\ starts_with(call.result[k].name, call.base_cmd \o <<"-">>)
            /\ call.result[k].name # call.base_cmd
            /\ call.result[k].invoke_command = Some(ManInvoke(call.result[k].name))

\* a section whose non-indented line named the base command and another tool:
\* only the page of the base command came back
C35_Filtered ==
    /\ SeeAlsoDone
    /\ ~call.broke
    /\ Len(call.content) = 2
    /\ Len(call.see_also_text) > 20
    /\ Len(call.result) = 1

(***************************************************************************)
(* The overlays and the state                                              *)
(***************************************************************************)
\* C36: the finder exists exactly in Finding and the switcher exactly in
\* Switching; a finder is opened only on a list with entries (OpenFinder on an
\* empty list stays in Paging and sets the banner), so in Finding and in
\* Switching the overlay that takes the key is always there.
C36_OverlayIffState ==
    /\ IsSome(finder) <=> state = "Finding"
    /\ IsSome(switcher) <=> state = "Switching"
    /\ state = "Finding" => Unwrap(finder).items # <<>>

C36_OpenFinderOnEmptyList ==
    [][(state = "Paging" /\ pc = "event" /\ subcommands = <<>> /\ state' = "Finding")
          => FALSE]_vars

\* the finder was closed by a drill, opened again, and is up in Finding
C36_Witness ==
    /\ state = "Finding"
    /\ IsSome(finder)
    /\ history # <<>>

\* OpenFinder on a page without subcommands: the banner, and still Paging
C36_EmptyListBanner ==
    /\ state = "Paging"
    /\ subcommands = <<>>
    /\ finder = None
    /\ error_message = Some("No subcommands found")

\* the switcher is up in Switching
C36_SwitcherUp == state = "Switching" /\ IsSome(switcher)

(***************************************************************************)
(* The navigation stack                                                    *)
(***************************************************************************)
PathPrefix(p, q) == Len(p) <= Len(q) /\ SubSeq(q, 1, Len(p)) = p

\* the entries are non-empty paths of the base of the current command, each a
\* prefix of the one above it and the top one a prefix of the current path
StackNested ==
    /\ current_command # <<>>
    /\ \A k \in 1..Len(history) :
          /\ history[k].command # <<>>
          /\ history[k].command[1] = current_command[1]
    /\ \A k \in 1..(Len(history) - 1) :
          PathPrefix(history[k].command, history[k + 1].command)
    /\ history # <<>> =>
          PathPrefix(history[Len(history)].command, current_command)

\* the top entry is the current path or the current path less its last token
TopWithinOne ==
    history # <<>> =>
        Len(current_command) - Len(history[Len(history)].command) \in {0, 1}

\* the base command changes only on a successful switch
BaseChangesOnSwitch ==
    [][current_command'[1] # current_command[1]
          => (last'.op = "switch" /\ last'.ok)]_vars

\* the stack on its own, two drills deep: the keys that open the finder and
\* go back, the selection in the finder, and the discovery workers
MaxStack == 2

StackKeys == {Key("f", {}), Key("Backspace", {})}

StackPagingKey == PagingKeyOf(StackKeys)

StackDrillKey == DrillKeyOf(MaxStack)

StackNext ==
    \/ Tick
    \/ IdleTick
    \/ StackPagingKey
    \/ BackKey
    \/ StackDrillKey
    \/ WorkerSend
    \/ OrphanFinish

StackSpec == Init /\ [][StackNext]_vars

\* C37: the command path is non-empty; every history entry's path is non-empty
\* with the base of the current path; each entry's path is a prefix of the
\* path of the entry above it; the top entry's path is a prefix of the current
\* path, equal to it or shorter by exactly one token.
C37_StackShape == StackNested /\ TopWithinOne

\* two entries under a path two tokens long
C37_Deep ==
    /\ Len(history) >= 2
    /\ Len(current_command) >= 2
    /\ StackNested

(***************************************************************************)
(* Invoke templates and the pending receiver                               *)
(***************************************************************************)
HasTemplate(list) == \E k \in 1..Len(list) : IsSome(list[k].invoke_command)

\* C38: while a discovery receiver is pending, neither the subcommand list nor
\* the items of an open finder hold an entry with an invoke template.
C38_NoTemplateWhilePending ==
    IsSome(discovery_receiver) =>
        /\ ~HasTemplate(subcommands)
        /\ IsSome(finder) => ~HasTemplate(Unwrap(finder).items)

\* so no template drill happens while a result is outstanding, and a payload
\* is merged only into a list that holds no template yet
C38_NoTemplateDrillWhilePending ==
    [][/\ (last'.op = "drill_template" /\ DrillKey) => discovery_receiver = None
       /\ (Tick /\ subcommands' # subcommands) => ~HasTemplate(subcommands)]_vars

\* a worker is outstanding after a drill along the path and the finder is
\* open on the list of the new page
C38_Witness ==
    /\ IsSome(discovery_receiver)
    /\ IsSome(finder)
    /\ history # <<>>
    /\ Unwrap(finder).items # <<>>

\* a template-drilled page with templates in its list and no receiver
C38_TemplatePage ==
    /\ discovery_receiver = None
    /\ last.op = "drill_template"
    /\ last.ok
    /\ HasTemplate(subcommands)

(***************************************************************************)
(* The pending g and the other states                                      *)
(***************************************************************************)
\* the keys pressed in Paging after a g: the second g, the keys that open
\* Search, Finder, Switcher and Help, and Back
PendingKeys == {Key(c, {}) : c \in {"g", "/", "f", "o", "?", "Backspace"}}

PendingPagingKey == PagingKeyOf(PendingKeys)

\* the overlays are only closed again
PendingFindingKey == FindingKeyOf({Key("Esc", {})})

PendingSwitchingKey == SwitchingKeyOf({Key("Esc", {})})

PendingNext ==
    \/ Tick
    \/ IdleTick
    \/ PendingPagingKey
    \/ BackKey
    \/ SearchingKey
    \/ PendingFindingKey
    \/ DrillKey
    \/ PendingSwitchingKey
    \/ HelpKey
    \/ WorkerSend

PendingSpec == Init /\ [][PendingNext]_vars

\* C39: the pending-g flag is false in every state other than Paging, and
\* false after every key for which the key handler returned an action: a g
\* typed before Search, Finder, Switcher or Help is opened, or before a Back,
\* is forgotten.
C39_PendingGCleared ==
    [][/\ state' # "Paging" => ~pending_g'
       /\ \A key \in PendingKeys :
             (/\ pc = "event"
              /\ state = "Paging"
              /\ IsSome(KeyHandler_handle(pending_g, key).action)
              /\ PagingKeyOf({key})) => ~pending_g'
       /\ (pending_g /\ history # <<>> /\ BackKey) => ~pending_g'
       /\ (pending_g /\ state' # state) => ~pending_g']_vars

\* Help was opened by the key that followed a g, and no g is pending
C39_Witness ==
    /\ state = "Help"
    /\ last.op = "after_g"
    /\ ~pending_g

\* the same for the finder
C39_FinderAfterG ==
    /\ state = "Finding"
    /\ last.op = "after_g"
    /\ ~pending_g

\* a g is pending on a page with a navigation stack: the next key may be Back
C39_PendingBeforeBack ==
    /\ pending_g
    /\ history # <<>>
    /\ pc = "event"

(***************************************************************************)
(* pager.rs: the search of a pager on its own                              *)
(***************************************************************************)
MaxPage == 3

\* the lines of a page and the queries given to set_search
PagerLines == { <<"a">>, <<"A","b">>, <<"b">> }

PagerContents == UNION { [1..n -> PagerLines] : n \in 0..MaxPage }

PagerQueries == { <<>>, <<"a">>, <<"A">>, <<"b">>, <<"a","B">> }

PagerCall(pg) == [fn |-> "pager", pager |-> pg]

PagerInit ==
    /\ AppAtRest
    /\ \E content \in PagerContents : call = PagerCall(Pager_new(content))

OnPager == call.fn = "pager"

PagerSetSearch ==
    /\ OnPager
    /\ \E query \in PagerQueries :
          call' = PagerCall(Pager_set_search(call.pager, query))
    /\ AppFrame

PagerClearSearch ==
    /\ OnPager
    /\ call' = PagerCall(Pager_clear_search(call.pager))
    /\ AppFrame

PagerNextMatch ==
    /\ OnPager
    /\ call' = PagerCall(Pager_next_match(call.pager))
    /\ AppFrame

PagerPrevMatch ==
    /\ OnPager
    /\ call' = PagerCall(Pager_prev_match(call.pager))
    /\ AppFrame

PagerNext ==
    \/ PagerSetSearch
    \/ PagerClearSearch
    \/ PagerNextMatch
    \/ PagerPrevMatch

PagerSpec == PagerInit /\ [][PagerNext]_vars

\* the line holds the query at some offset, letter case aside
HoldsQuery(line, query) ==
    \E o \in 0..(Len(line) - Len(query)) :
        \A j \in 1..Len(query) : LowerChar(line[o + j]) = LowerChar(query[j])

\* the match list and the current match of a pager are well formed
SearchWellFormed(pg) ==
    LET ms == pg.search_matches
    IN  /\ \A k \in 1..Len(ms) : ms[k] \in 0..(Len(pg.content) - 1)
        /\ \A k \in 1..(Len(ms) - 1) : ms[k] < ms[k + 1]
        /\ { ms[k] : k \in 1..Len(ms) } =
               IF IsSome(pg.search_query)
               THEN { i - 1 : i \in { l \in 1..Len(pg.content) :
                                         HoldsQuery(pg.content[l], Unwrap(pg.search_query)) } }
               ELSE {}
        /\ IF ms = <<>> THEN pg.current_match = 0 ELSE pg.current_match < Len(ms)

\* C40: after any sequence of set_search, clear_search, next_match and
\* prev_match the match list is strictly increasing, holds valid line indices,
\* and holds exactly the lines that contain the query case-insensitively; the
\* current match is 0 for an empty list and below its length otherwise;
\* next_match and prev_match move it cyclically by one, each undoing the
\* other, and set the scroll to the selected match line; with no matches
\* they change nothing.
C40_SearchInvariant ==
    [][OnPager =>
         LET pg == call.pager
             n == Len(pg.search_matches)
         IN  /\ SearchWellFormed(call'.pager)
             /\ (PagerNextMatch /\ n > 0) =>
                   /\ call'.pager.current_match = (pg.current_match + 1) % n
                   /\ call'.pager.scroll = pg.search_matches[call'.pager.current_match + 1]
                   /\ Pager_prev_match(call'.pager).current_match = pg.current_match
             /\ (PagerPrevMatch /\ n > 0) =>
                   /\ call'.pager.current_match = (pg.current_match + n - 1) % n
                   /\ call'.pager.scroll = pg.search_matches[call'.pager.current_match + 1]
                   /\ Pager_next_match(call'.pager).current_match = pg.current_match
             /\ ((PagerNextMatch \/ PagerPrevMatch) /\ n = 0) => call'.pager = pg]_vars

\* three lines match, the last one is selected and the page is scrolled to it:
\* the next next_match wraps to the first
C40_Witness ==
    /\ OnPager
    /\ Len(call.pager.search_matches) = 3
    /\ call.pager.current_match = 2
    /\ call.pager.scroll = call.pager.search_matches[3]

\* a query in capitals matched a line in lower case, and another line did not
\* match
C40_CaseInsensitive ==
    /\ OnPager
    /\ call.pager.search_query = Some(<<"A">>)
    /\ Len(call.pager.content) = 3
    /\ call.pager.search_matches = <<0, 2>>

\* the same of the pager of the running app, whatever the keys did
C40_AppPager == SearchWellFormed(pager)

====
